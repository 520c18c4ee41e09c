----------------------------- MODULE CodexAuth -----------------------------
(***************************************************************************)
(* The tokens of `codex login` (providers/genai/codex_auth.rs).  Clients - *)
(* this process and the Codex CLI, or another process - share auth.json.   *)
(* One that finds the access token expired trades the refresh token, which *)
(* the server takes only once, and writes both back: to a file beside it,  *)
(* which is then renamed.  Since a token is taken once there is never more *)
(* than one client that writes.  Tokens are numbered as they are given out.*)
(***************************************************************************)
EXTENDS Integers, TLC, Bounds

CONSTANTS Us, Others    \* this process; the other users of the file

ASSUME AuthAssumption == Us \notin Others

Clients == {Us} \cup Others

VARIABLES issued,       \* the server: the newest refresh token, the only one it takes
          expired,      \* access tokens up to this one have expired
          auth, tmp,    \* auth.json and auth.json.tmp: tokens, Partial or NoFile
          client,       \* what each client is at
          burned        \* history: the token that a client had as a fault met it
authVars == << issued, expired, auth, tmp, client, burned >>

Tokens(refresh, access) == [refresh |-> refresh, access |-> access]
Partial == Tokens(0, 0)
NoFile == Tokens(-1, -1)

At(pc) == [pc |-> pc]
Resting == At("idle")
Failed == At("failed")
Ready == At("ready")

AuthInit ==
  /\ issued = 1 /\ expired = 0 /\ burned = 0
  /\ auth = Tokens(1, 1) /\ tmp = NoFile
  /\ client = [c \in Clients |-> Resting]

Becomes(c, state) == client' = [client EXCEPT ![c] = state]

(* The access token runs out, within the margin or altogether. *)
Expire ==
  /\ Spend("expiries") /\ expired' = expired + 1
  /\ UNCHANGED << issued, auth, tmp, client, burned >>

Stale(tokens) == tokens.access <= expired

(* resolve reads the file. *)
Read(c) ==
  /\ client[c].pc = "idle"
  /\ Becomes(c, IF Stale(auth) THEN [pc |-> "post", tokens |-> auth] ELSE Ready)
  /\ UNCHANGED << issued, expired, auth, tmp, burned, left >>

(* What the answer leaves of the tokens read. *)
TakesBoth(c, refresh) == Tokens(refresh, client[c].tokens.access + 1)

(* request_refresh: refused when the token was traded already, by whomever. *)
Granted(c) ==
  /\ client[c].pc = "post" /\ client[c].tokens.refresh = issued
  /\ issued' = issued + 1
  /\ Becomes(c, [pc |-> "write", tokens |-> TakesBoth(c, issued')])
  /\ UNCHANGED << expired, auth, tmp, burned, left >>
Refused(c) ==
  /\ client[c].pc = "post" /\ client[c].tokens.refresh # issued
  /\ Becomes(c, Failed)
  /\ UNCHANGED << issued, expired, auth, tmp, burned, left >>

(* The server has answered, and the file has not got what it said.  At "write" the answer is still on *)
(* its way; from its arrival to the rename nothing is awaited.                                        *)
Holding(c) == client[c].pc \in {"write", "fill", "rename"}
InFile == auth.refresh = issued
Loses(c) == burned' = IF Holding(c) THEN client[c].tokens.refresh ELSE burned

(* Mutant: the file itself is opened and truncated. *)
OpenInPlace(c) ==
  /\ client[c].pc = "write"
  /\ auth' = Partial /\ Becomes(c, [client[c] EXCEPT !.pc = "fill"])
  /\ UNCHANGED << issued, expired, tmp, burned, left >>

(* write_private: the file beside is opened and truncated, filled ... *)
OpenTmp(c) ==
  /\ client[c].pc = "write"
  /\ tmp' = Partial /\ Becomes(c, [client[c] EXCEPT !.pc = "fill"])
  /\ UNCHANGED << issued, expired, auth, burned, left >>

Fill(c) ==
  /\ client[c].pc = "fill"
  /\ tmp' = client[c].tokens /\ Becomes(c, [client[c] EXCEPT !.pc = "rename"])
  /\ UNCHANGED << issued, expired, auth, burned, left >>

(* ... and renamed. *)
Rename(c) ==
  /\ client[c].pc = "rename"
  /\ auth' = tmp /\ tmp' = NoFile /\ Becomes(c, Ready)
  /\ UNCHANGED << issued, expired, burned, left >>

(* The answer never comes, or the disk is full. *)
RefreshFails(c) ==
  /\ client[c].pc \in {"post", "write", "fill", "rename"} /\ Spend("losses")
  /\ Becomes(c, Failed) /\ Loses(c)
  /\ UNCHANGED << issued, expired, auth, tmp >>

(* A process dies wherever it is; a future is dropped where it waits, which is for the server only. *)
Gone(c) == Becomes(c, Resting) /\ Loses(c) /\ UNCHANGED << issued, expired, auth, tmp >>
Dies(c) == client[c].pc # "idle" /\ Spend("deaths") /\ Gone(c)
Waiting(c) == client[c].pc \in {"post", "write"}

Release(c) ==
  /\ client[c].pc \in {"failed", "ready"} /\ Becomes(c, Resting)
  /\ UNCHANGED << issued, expired, auth, tmp, burned >>

Refresh(c) == Granted(c) \/ Refused(c) \/ OpenTmp(c) \/ Fill(c) \/ Rename(c) \/ RefreshFails(c)

(* The others' uses of the file. *)
OthersUse ==
  \E c \in Others :
    \/ Read(c) /\ Stale(auth)
    \/ Refresh(c)
    \/ Dies(c)
    \/ Release(c) /\ UNCHANGED left

(* Whoever reads, refreshes and writes, and whoever fails, dies or is dropped wherever (resolve,      *)
(* write_auth_json: "so a crash mid-write can't truncate the live credential file"): auth.json is     *)
(* whole; what is to replace it is newer than it; and the refresh token the server takes is in it, or *)
(* with a client that is about to put it there, but for a fault met on the way from the server's      *)
(* answer to the rename, against which the code keeps nothing.                                        *)
TokenIsRecoverable ==
  /\ auth \notin {Partial, NoFile}
  /\ \A c \in Clients : Holding(c) =>
       client[c].tokens.refresh > auth.refresh /\ client[c].tokens.access > auth.access
  /\ InFile \/ burned = issued \/ \E c \in Clients : Holding(c) /\ client[c].tokens.refresh = issued
=============================================================================
