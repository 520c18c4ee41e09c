----------------------- MODULE SessionServicesProofs -----------------------
(***************************************************************************)
(* What the services of a session promise, for any other users of the      *)
(* tokens, any configuration and selections and any bounds.                *)
(*                                                                         *)
(* TokenIsRecoverable.  That the newest refresh token is not lost, and the *)
(* file is whole, depends on there being one client at most that has it    *)
(* and not the file: a token is only granted to who has the newest one,    *)
(* which is in the file then, so nobody else is on the way there with      *)
(* another, and the file beside is that client's alone.                    *)
(*                                                                         *)
(* UsableIsCurrent and SelectionIsWhole.  Both rest on what holds of an    *)
(* entry of the context from the moment it is taken: its connection is one *)
(* to its server, of which it knows a revision of the past, and whoever    *)
(* knows the last one knows the tools or is about to be told.  A selection *)
(* that is being prepared keeps this for its own entries, but for the one  *)
(* it is listing.                                                          *)
(*                                                                         *)
(* ShownOnce.  A request is only tried again while nothing is shown.       *)
(*                                                                         *)
(* RequestsArePaired and PrefixIsKept.  Both are about how the provider    *)
(* lays out a history and what is carried behind it.  A result answers the *)
(* last call with its identifier before it - Sound - so remapping gives it *)
(* the number of that call; calls are numbered in order, so a number is of *)
(* one call; and a request is, message by message, the message and the     *)
(* results of its calls.  What is carried answers calls of the last answer *)
(* only, so no result of an earlier call changes: the request begins as    *)
(* the one before did.  That this is all that is ever carried, and that    *)
(* the history ends with the last answer, is what the turns keep: TalkInv. *)
(***************************************************************************)
EXTENDS SessionServices, SequenceTheorems, FiniteSetTheorems, WellFoundedInduction, TLAPS

-----------------------------------------------------------------------------
(* The tokens.                                                             *)

TokenSet == [refresh : Int, access : Int]
ClientState == [pc : {"idle", "failed", "ready"}]
                 \cup [pc : {"post", "write", "fill", "rename"}, tokens : TokenSet]

AuthTypesOK ==
  /\ issued \in Nat \ {0} /\ auth \in TokenSet /\ tmp \in TokenSet
  /\ client \in [Clients -> ClientState]

AuthInv ==
  /\ AuthTypesOK
  /\ auth.refresh <= issued
  /\ \A c \in Clients : client[c].pc = "post" =>
       client[c].tokens.refresh <= issued /\ (client[c].tokens.refresh = issued => client[c].tokens = auth)
  /\ \A c \in Clients : Holding(c) => client[c].tokens.refresh = issued /\ ~InFile
  /\ \A c, d \in Clients : Holding(c) /\ Holding(d) => c = d
  /\ \A c \in Clients : client[c].pc = "rename" => tmp = client[c].tokens
  /\ TokenIsRecoverable

\* What a step of the session may do to the tokens.
AuthStep ==
  \/ UNCHANGED authVars
  \/ Expire
  \/ \E c \in Clients : Read(c) \/ Refresh(c) \/ Release(c) \/ Gone(c)

\* A session begins with the newest tokens in the file.
LEMMA AuthStarts == AuthInit => AuthInv
BY DEF AuthInit, AuthInv, AuthTypesOK, TokenSet, ClientState, Holding, InFile, TokenIsRecoverable,
  Tokens, Partial, NoFile, Resting, At

\* A client with other tokens, or none, loses nothing.
LEMMA AuthReadKeeps ==
  ASSUME AuthInv, NEW c \in Clients, Read(c)
  PROVE  AuthInv'
<1>1. /\ UNCHANGED <<issued, auth, tmp, burned>> /\ client[c].pc = "idle"
      /\ \/ client' = [client EXCEPT ![c] = [pc |-> "post", tokens |-> auth]]
         \/ client' = [client EXCEPT ![c] = [pc |-> "ready"]]
      /\ client \in [Clients -> ClientState]
  BY DEF Read, Becomes, Ready, At, AuthInv, AuthTypesOK
<1>2. \A d \in Clients : d # c => client'[d] = client[d]
  BY <1>1
<1>3. \/ client'[c] = [pc |-> "post", tokens |-> auth]
      \/ client'[c] = [pc |-> "ready"]
  BY <1>1
<1>4. client' \in [Clients -> ClientState]
  <2>1. [pc |-> "post", tokens |-> auth] \in ClientState /\ [pc |-> "ready"] \in ClientState
    BY DEF ClientState, AuthInv, AuthTypesOK
  <2> QED
    BY <1>1, <2>1
<1>5. ~Holding(c) /\ ~Holding(c)' /\ \A d \in Clients : d # c => (Holding(d)' <=> Holding(d))
  BY <1>1, <1>2, <1>3 DEF Holding
<1>6. InFile' <=> InFile
  BY <1>1 DEF InFile
<1>8. TokenIsRecoverable'
  <2>1. \A d \in Clients : Holding(d)' => Holding(d) /\ client'[d] = client[d]
    BY <1>2, <1>5
  <2>2. \A d \in Clients : Holding(d) => Holding(d)' /\ client'[d] = client[d]
    BY <1>2, <1>5
  <2> QED
    BY <1>1, <1>6, <2>1, <2>2 DEF AuthInv, TokenIsRecoverable
<1>9. \A d \in Clients : client'[d].pc = "post" =>
        client'[d].tokens.refresh <= issued /\ (client'[d].tokens.refresh = issued => client'[d].tokens = auth)
  BY <1>1, <1>2, <1>3 DEF AuthInv
<1>10. \A d \in Clients : client'[d].pc = "rename" => tmp = client'[d].tokens
  BY <1>2, <1>3 DEF AuthInv
<1> QED
  BY <1>1, <1>2, <1>4, <1>5, <1>6, <1>8, <1>9, <1>10 DEF AuthInv, AuthTypesOK

\* A client whose token was traded by another gives up; one that is done rests.
LEMMA AuthRestKeeps ==
  ASSUME AuthInv, NEW c \in Clients, Refused(c) \/ Release(c)
  PROVE  AuthInv'
<1>1. /\ UNCHANGED <<issued, auth, tmp, burned>> /\ client \in [Clients -> ClientState]
      /\ \/ client' = [client EXCEPT ![c] = [pc |-> "failed"]]
         \/ client' = [client EXCEPT ![c] = [pc |-> "idle"]]
      /\ client[c].pc \in {"post", "failed", "ready"}
  BY DEF Refused, Release, Becomes, Failed, Resting, At, AuthInv, AuthTypesOK
<1>2. /\ \A d \in Clients : d # c => client'[d] = client[d]
      /\ client'[c] = [pc |-> "failed"] \/ client'[c] = [pc |-> "idle"]
  BY <1>1
<1>3. client' \in [Clients -> ClientState]
  <2>1. [pc |-> "failed"] \in ClientState /\ [pc |-> "idle"] \in ClientState
    BY DEF ClientState
  <2> QED
    BY <1>1, <2>1
<1>4. \A d \in Clients : Holding(d)' <=> Holding(d)
  BY <1>1, <1>2 DEF Holding
<1>5. /\ \A d \in Clients : client'[d].pc \in {"post", "write", "fill", "rename"} => client'[d] = client[d]
      /\ \A d \in Clients : Holding(d) => client'[d] = client[d]
  BY <1>1, <1>2 DEF Holding
<1> QED
  BY <1>1, <1>3, <1>4, <1>5 DEF AuthInv, AuthTypesOK, Holding, InFile, TokenIsRecoverable

\* The server grants a new token only to who has the newest: it is in the file, so
\* nobody else is on the way there.
LEMMA AuthGrantedKeeps ==
  ASSUME AuthInv, NEW c \in Clients, Granted(c)
  PROVE  AuthInv'
<1> DEFINE new == [refresh |-> issued + 1, access |-> client[c].tokens.access + 1]
<1>1. /\ UNCHANGED <<auth, tmp, burned>> /\ issued' = issued + 1 /\ client \in [Clients -> ClientState]
      /\ client' = [client EXCEPT ![c] = [pc |-> "write", tokens |-> new]]
      /\ client[c].pc = "post" /\ client[c].tokens.refresh = issued
      /\ issued \in Nat /\ auth \in TokenSet
  BY DEF Granted, Becomes, TakesBoth, Tokens, AuthInv, AuthTypesOK
<1>2. /\ \A d \in Clients : d # c => client'[d] = client[d]
      /\ client'[c] = [pc |-> "write", tokens |-> new]
  BY <1>1
<1>3. InFile /\ ~InFile' /\ \A d \in Clients : ~Holding(d)
  <2>1. InFile
    BY <1>1 DEF AuthInv, InFile
  <2>2. ~InFile'
    BY <1>1, <2>1 DEF InFile
  <2> QED
    BY <2>1, <2>2 DEF AuthInv
<1>4. client' \in [Clients -> ClientState]
  <2>1. client[c].tokens \in TokenSet
    BY <1>1 DEF ClientState
  <2>2. [pc |-> "write", tokens |-> new] \in ClientState
    BY <1>1, <2>1 DEF ClientState, TokenSet
  <2> QED
    BY <1>1, <2>2
<1>5. Holding(c)' /\ \A d \in Clients : d # c => ~Holding(d)'
  BY <1>2, <1>3 DEF Holding
<1>6. TokenIsRecoverable'
  <2>1. client[c].tokens = auth /\ auth.refresh \in Int /\ auth.access \in Int
    BY <1>1 DEF AuthInv, TokenSet
  <2>2. client'[c].tokens.refresh = auth.refresh + 1 /\ client'[c].tokens.access = auth.access + 1
    BY <1>1, <1>2, <2>1
  <2>3. client'[c].tokens.refresh > auth'.refresh /\ client'[c].tokens.access > auth'.access
    BY <1>1, <2>1, <2>2
  <2>4. client'[c].tokens.refresh = issued'
    BY <1>1, <1>2
  <2>5. auth' \notin {Partial, NoFile}
    BY <1>1 DEF AuthInv, TokenIsRecoverable, Partial, NoFile
  <2> QED
    BY <1>5, <2>3, <2>4, <2>5 DEF TokenIsRecoverable
<1>7. \A d \in Clients : client'[d].pc = "post" =>
        client'[d].tokens.refresh <= issued' /\ client'[d].tokens.refresh # issued'
  <2> SUFFICES ASSUME NEW d \in Clients, client'[d].pc = "post"
               PROVE  client'[d].tokens.refresh <= issued' /\ client'[d].tokens.refresh # issued'
    OBVIOUS
  <2>1. client'[d] = client[d] /\ client[d].tokens \in TokenSet /\ client[d].tokens.refresh <= issued
    BY <1>1, <1>2 DEF AuthInv, ClientState
  <2>2. client[d].tokens.refresh \in Int
    BY <2>1 DEF TokenSet
  <2> QED
    BY <1>1, <2>1, <2>2
<1>8. auth'.refresh <= issued' /\ issued' \in Nat \ {0}
  <2>1. auth.refresh \in Int /\ auth.refresh <= issued
    BY <1>1 DEF AuthInv, TokenSet
  <2> QED
    BY <1>1, <2>1
<1>9. \A d \in Clients : client'[d].pc = "rename" => tmp' = client'[d].tokens
  BY <1>1, <1>2 DEF AuthInv
<1> QED
  BY <1>1, <1>2, <1>3, <1>4, <1>5, <1>6, <1>7, <1>8, <1>9 DEF AuthInv, AuthTypesOK

\* The one that holds the token writes it beside the file; nobody else writes there.
LEMMA AuthWriteKeeps ==
  ASSUME AuthInv, NEW c \in Clients, OpenTmp(c) \/ Fill(c)
  PROVE  AuthInv'
<1> DEFINE tokens == client[c].tokens
<1>1. /\ UNCHANGED <<issued, auth, burned>> /\ client \in [Clients -> ClientState] /\ Holding(c)
      /\ \/ tmp' = Partial /\ client' = [client EXCEPT ![c] = [client[c] EXCEPT !.pc = "fill"]]
         \/ tmp' = tokens /\ client' = [client EXCEPT ![c] = [client[c] EXCEPT !.pc = "rename"]]
  BY DEF OpenTmp, Fill, Becomes, AuthInv, AuthTypesOK, Holding
<1>2. client[c] = [pc |-> client[c].pc, tokens |-> tokens] /\ tokens \in TokenSet
  BY <1>1 DEF ClientState, Holding
<1>3. /\ \A d \in Clients : d # c => client'[d] = client[d]
      /\ \/ tmp' = Partial /\ client'[c] = [pc |-> "fill", tokens |-> tokens]
         \/ tmp' = tokens /\ client'[c] = [pc |-> "rename", tokens |-> tokens]
  BY <1>1, <1>2
<1>4. client' \in [Clients -> ClientState] /\ tmp' \in TokenSet
  <2>1. /\ [pc |-> "fill", tokens |-> tokens] \in ClientState
        /\ [pc |-> "rename", tokens |-> tokens] \in ClientState
    BY <1>2 DEF ClientState
  <2>2. Partial \in TokenSet
    BY DEF Partial, Tokens, TokenSet
  <2>3. client'[c] \in ClientState /\ tmp' \in TokenSet
    BY <1>2, <1>3, <2>1, <2>2
  <2>4. client' = [client EXCEPT ![c] = client'[c]]
    BY <1>1
  <2> QED
    BY <1>1, <2>3, <2>4
<1>5. \A d \in Clients : Holding(d)' <=> Holding(d)
  BY <1>1, <1>3 DEF Holding
<1>6. \A d \in Clients : d # c => ~Holding(d)
  BY <1>1 DEF AuthInv
<1>7. TokenIsRecoverable'
  <2>1. \A d \in Clients : Holding(d)' => Holding(d) /\ client'[d].tokens = client[d].tokens
    BY <1>1, <1>2, <1>3, <1>5
  <2>2. \A d \in Clients : Holding(d) => Holding(d)' /\ client'[d].tokens = client[d].tokens
    BY <1>1, <1>2, <1>3, <1>5
  <2> QED
    BY <1>1, <2>1, <2>2 DEF AuthInv, TokenIsRecoverable, InFile, Partial, NoFile
<1>8. \A d \in Clients : client'[d].pc = "rename" => tmp' = client'[d].tokens
  <2>1. \A d \in Clients : d # c => client'[d].pc # "rename"
    BY <1>3, <1>6 DEF Holding
  <2> QED
    BY <1>3, <2>1
<1>9. \A d \in Clients : client'[d].pc = "post" => client'[d] = client[d]
  BY <1>3
<1>10. Holding(c)' => client'[c].tokens.refresh = issued
  BY <1>1, <1>3 DEF AuthInv
<1>11. AuthTypesOK'
  BY <1>1, <1>4 DEF AuthInv, AuthTypesOK
<1>12. InFile' <=> InFile
  BY <1>1 DEF InFile
<1> QED
  BY <1>1, <1>5, <1>6, <1>7, <1>8, <1>9, <1>10, <1>11, <1>12 DEF AuthInv

\* The rename brings the newest token into the file.
LEMMA AuthRenameKeeps ==
  ASSUME AuthInv, NEW c \in Clients, Rename(c)
  PROVE  AuthInv'
<1>1. /\ UNCHANGED <<issued, burned>> /\ client \in [Clients -> ClientState] /\ Holding(c)
      /\ auth' = client[c].tokens /\ tmp' = NoFile
      /\ client' = [client EXCEPT ![c] = [pc |-> "ready"]]
      /\ client[c].tokens.refresh = issued /\ issued \in Nat \ {0}
  BY DEF Rename, Becomes, Ready, At, AuthInv, AuthTypesOK, Holding
<1>2. /\ \A d \in Clients : d # c => client'[d] = client[d]
      /\ client'[c] = [pc |-> "ready"]
  BY <1>1
<1>3. InFile' /\ \A d \in Clients : ~Holding(d)'
  <2>1. \A d \in Clients : d # c => ~Holding(d)
    BY <1>1 DEF AuthInv
  <2> QED
    BY <1>1, <1>2, <2>1 DEF InFile, Holding
<1>4. AuthTypesOK'
  <2>1. [pc |-> "ready"] \in ClientState
    BY DEF ClientState
  <2>2. client[c].tokens \in TokenSet /\ NoFile \in TokenSet
    BY <1>1 DEF ClientState, Holding, NoFile, Tokens, TokenSet
  <2>3. client' \in [Clients -> ClientState]
    BY <1>1, <2>1
  <2> QED
    BY <1>1, <2>2, <2>3 DEF AuthTypesOK
<1>5. \A d \in Clients : client'[d].pc = "post" => client'[d].tokens.refresh <= issued
  BY <1>2 DEF AuthInv
<1>6. \A d \in Clients : client'[d].pc # "rename"
  BY <1>3 DEF Holding
<1>7. auth'.refresh <= issued'
  BY <1>1
<1>8. auth' \notin {Partial, NoFile}
  BY <1>1 DEF Partial, NoFile, Tokens
<1>9. \A d \in Clients : client'[d].pc = "post" => client'[d].tokens.refresh # issued
  BY <1>1, <1>2 DEF AuthInv, InFile
<1> QED
  BY <1>1, <1>3, <1>4, <1>5, <1>6, <1>7, <1>8, <1>9 DEF AuthInv, TokenIsRecoverable

\* Who fails or dies takes at most its own token along.
LEMMA AuthLossKeeps ==
  ASSUME AuthInv, NEW c \in Clients, RefreshFails(c) \/ Gone(c)
  PROVE  AuthInv'
<1>1. /\ UNCHANGED <<issued, auth, tmp>> /\ client \in [Clients -> ClientState] /\ Loses(c)
      /\ \/ client' = [client EXCEPT ![c] = [pc |-> "failed"]]
         \/ client' = [client EXCEPT ![c] = [pc |-> "idle"]]
  BY DEF RefreshFails, Gone, Becomes, Failed, Resting, At, AuthInv, AuthTypesOK
<1>2. /\ \A d \in Clients : d # c => client'[d] = client[d]
      /\ client'[c] = [pc |-> "failed"] \/ client'[c] = [pc |-> "idle"]
  BY <1>1
<1>3. client' \in [Clients -> ClientState]
  <2>1. [pc |-> "failed"] \in ClientState /\ [pc |-> "idle"] \in ClientState
    BY DEF ClientState
  <2> QED
    BY <1>1, <2>1
<1>4. \A d \in Clients : client'[d].pc \in {"post", "write", "fill", "rename"} => client'[d] = client[d]
  BY <1>2
<1>5. \A d \in Clients : Holding(d)' <=> Holding(d) /\ d # c
  BY <1>1, <1>2 DEF Holding
<1>6. TokenIsRecoverable'
  <2>1. CASE Holding(c)
    <3>1. burned' = issued /\ issued' = issued
      BY <1>1, <2>1 DEF Loses, AuthInv
    <3> QED
      BY <1>1, <1>2, <1>5, <3>1 DEF AuthInv, TokenIsRecoverable, InFile, Partial, NoFile
  <2>2. CASE ~Holding(c)
    <3>1. burned' = burned
      BY <1>1, <2>2 DEF Loses
    <3> QED
      BY <1>1, <1>2, <1>5, <2>2, <3>1 DEF AuthInv, TokenIsRecoverable, InFile, Partial, NoFile
  <2> QED
    BY <2>1, <2>2
<1> QED
  BY <1>1, <1>3, <1>4, <1>6 DEF AuthInv, AuthTypesOK, Holding, InFile

\* So every step keeps the invariant.
LEMMA AuthKeeps == ASSUME AuthInv, AuthStep PROVE AuthInv'
<1>1. CASE UNCHANGED authVars
  BY <1>1 DEF authVars, AuthInv, AuthTypesOK, Holding, InFile, TokenIsRecoverable,
     Partial, NoFile
<1>2. CASE Expire
  BY <1>2 DEF Expire, AuthInv, AuthTypesOK, Holding, InFile, TokenIsRecoverable,
     Partial, NoFile
<1> QED
  BY <1>1, <1>2, AuthReadKeeps, AuthRestKeeps, AuthGrantedKeeps, AuthWriteKeeps, AuthRenameKeeps,
     AuthLossKeeps DEF AuthStep, Refresh

\* The steps of the session are such steps.
LEMMA NextIsAuthStep == [Next]_vars => AuthStep
<1> SUFFICES ASSUME [Next]_vars PROVE AuthStep
  OBVIOUS
<1>1. Us \in Clients /\ Others \subseteq Clients
  BY DEF Clients
<1>2. CASE CallsNext
  <2>1. CASE Interrupt \/ EndTurn \/ Run \/ Opened \/ Delta \/ BreaksAndRetries \/ Backoff \/ Ends \/ Flush
             \/ Answered \/ Dropped \/ Save \/ Scold
    BY <2>1 DEF Interrupt, EndTurn, Run, Opened, Delta, BreaksAndRetries, Backoff, Ends, Flush,
       Answered, Dropped, Save, Scold, Step, AuthStep
  <2>2. CASE Authorize \/ Authorizing \/ Authorized \/ CallFails
    BY <1>1, <2>2 DEF Authorize, Authorizing, Authorized, CallFails, AuthStep
  <2>3. CASE Judged \/ JudgeDropped
    BY <1>1, <2>3 DEF Judged, JudgeDropped, AuthStep
  <2>4. CASE OthersRefresh \/ Expires
    BY <1>1, <2>4 DEF OthersRefresh, OthersUse, Dies, Expires, AuthStep
  <2> QED
    BY <1>2, <2>1, <2>2, <2>3, <2>4 DEF CallsNext
<1>3. CASE Prompt \/ Settle \/ Judge
  BY <1>3 DEF Prompt, Settle, Judge, AuthStep
<1>4. CASE Selects \/ CallsServer \/ Meanwhile \/ UNCHANGED vars
  BY <1>4 DEF Selects, CallsServer, Meanwhile, vars, AuthStep
<1> QED
  BY <1>2, <1>3, <1>4 DEF Next, Talks, HasResult

\* Whatever fails, dies or is dropped: auth.json is whole, what is to replace it is newer, and
\* the refresh token the server takes next is in it or in the hands of one that writes it there,
\* unless that one met the fault with it (codex_auth.rs: resolve, write_auth_json).
THEOREM TokensAreRecoverable == Spec => []TokenIsRecoverable
<1>1. Init => AuthInv
  BY AuthStarts DEF Init, CallsInit
<1>2. AuthInv /\ [Next]_vars => AuthInv'
  BY NextIsAuthStep, AuthKeeps
<1>3. AuthInv => TokenIsRecoverable
  BY DEF AuthInv
<1> QED
  BY <1>1, <1>2, <1>3, PTL DEF Spec

-----------------------------------------------------------------------------
(* The MCP servers.                                                        *)

Server == Mcp!Configured
Conn == [server : Server, changed : Nat, notes : Nat, listening : BOOLEAN,
         end : {"open", "closed", "lost"}, reads : BOOLEAN, process : {"none", "running", "term", "gone"}]
Entry == [conn : Nat, revision : Nat, version : Nat]
Tools == UNION {[S -> Entry] : S \in SUBSET Server}

Picking ==
  [pc : {"connect"}, todo : SUBSET Server, next : Tools]
    \cup [pc : {"connect", "list", "listed"}, todo : SUBSET Server, preparing : Server, next : Tools]
Calling ==
  [pc : {"ask", "allowed", "sent"}, server : Server,
   operation : {"tool", "resources", "read_resource"}, round : Nat]
AtRest == [pc : {"idle", "ended"}] \cup [pc : {"closing"}, olds : SUBSET Nat]

McpTypesOK ==
  /\ catalog \in [Server -> Nat] /\ conns \in Seq(Conn) /\ context \in Tools
  /\ work \in Picking \cup Calling \cup AtRest

Preparing == work.pc \in {"connect", "list", "listed"}

\* Connection c is one to s, has not been closed here, and has seen that revision.
Fits(e, s, cs) ==
  /\ e.conn \in DOMAIN cs /\ cs[e.conn].server = s /\ cs[e.conn].end # "closed"
  /\ e.revision <= cs[e.conn].changed

\* An entry of the last revision has the tools of now, or a notice is on its way.
Fresh(e, s, cs, cat) ==
  (cs[e.conn].changed = e.revision /\ cs[e.conn].end = "open" /\ cs[e.conn].listening)
    => e.version = cat[s] \/ cs[e.conn].notes > 0

\* The connections of tools.
Used(tools) == {tools[s].conn : s \in DOMAIN tools}
Owned == Used(context) \cup (IF Preparing THEN Used(work.next) ELSE {})

ContextOK == \A s \in DOMAIN context : Fits(context[s], s, conns) /\ Fresh(context[s], s, conns, catalog)

NextOK ==
  Preparing =>
    /\ work.todo \cap DOMAIN work.next = {}
    /\ work.pc # "connect" => work.preparing \in DOMAIN work.next
    /\ \A s \in DOMAIN work.next :
         /\ Fits(work.next[s], s, conns)
         /\ (work.pc = "list" /\ s = work.preparing) \/ Fresh(work.next[s], s, conns, catalog)

OpenIsOwned == \A c \in DOMAIN conns : conns[c].end = "open" => c \in Owned

McpInv == McpTypesOK /\ ContextOK /\ NextOK /\ OpenIsOwned

\* What the servers may do to a connection: know more of it or hang up.
Moves ==
  /\ conns' \in Seq(Conn) /\ DOMAIN conns' = DOMAIN conns /\ catalog' \in [Server -> Nat]
  /\ \A c \in DOMAIN conns :
       LET old == conns[c]
           new == conns'[c]
       IN /\ new.server = old.server /\ old.changed <= new.changed
          /\ new.end = old.end \/ (old.end = "open" /\ new.end = "lost")
          /\ new.end = "open" /\ new.listening /\ new.changed = old.changed
               => /\ old.listening
                  /\ old.notes > 0 => new.notes > 0
                  /\ catalog'[old.server] = catalog[old.server] \/ new.notes > 0

\* The connection of an entry that fits is one of its server.
LEMMA ConnTyped ==
  ASSUME McpTypesOK, NEW c \in DOMAIN conns
  PROVE  /\ conns[c] \in Conn /\ c \in Nat
BY DEF McpTypesOK

\* An entry of tools is an entry, and one of a server.
LEMMA ToolsTyped ==
  ASSUME NEW tools \in Tools
  PROVE  /\ DOMAIN tools \subseteq Server
         /\ \A s \in DOMAIN tools : tools[s] \in Entry
BY DEF Tools

\* A preparation has its fields.
LEMMA PickingTyped ==
  ASSUME McpTypesOK, Preparing
  PROVE  work \in Picking /\ work.next \in Tools /\ work.todo \subseteq Server
BY DEF McpTypesOK, Preparing, Picking, Calling, AtRest

\* What the servers do keeps every entry, for it knows no revision of the future.
LEMMA MovesKeep ==
  ASSUME McpInv, Moves, UNCHANGED << context, work >>
  PROVE  McpInv'
<1>1. McpTypesOK
  BY DEF McpInv
<1>2. McpTypesOK'
  BY <1>1 DEF Moves, McpTypesOK
<1>3. ASSUME NEW e \in Entry, NEW s \in Server, Fits(e, s, conns)
      PROVE  Fits(e, s, conns')
  <2>1. e.conn \in DOMAIN conns /\ conns[e.conn] \in Conn /\ conns'[e.conn] \in Conn
    BY <1>1, <1>2, <1>3, ConnTyped DEF Fits, Moves, McpTypesOK
  <2>2. conns'[e.conn].changed \in Nat /\ conns[e.conn].changed \in Nat /\ e.revision \in Nat
    BY <2>1 DEF Conn, Entry
  <2> QED
    BY <1>3, <2>1, <2>2 DEF Fits, Moves
<1>4. ASSUME NEW e \in Entry, NEW s \in Server, Fits(e, s, conns), Fresh(e, s, conns, catalog)
      PROVE  Fresh(e, s, conns', catalog')
  <2>1. e.conn \in DOMAIN conns /\ conns[e.conn] \in Conn /\ conns'[e.conn] \in Conn
    BY <1>1, <1>2, <1>4, ConnTyped DEF Fits, Moves, McpTypesOK
  <2>2. conns'[e.conn].changed \in Nat /\ conns[e.conn].changed \in Nat /\ e.revision \in Nat
    BY <2>1 DEF Conn, Entry
  <2> QED
    BY <1>4, <2>1, <2>2 DEF Fits, Fresh, Moves
<1>5. ContextOK'
  <2>1. context \in Tools
    BY <1>1 DEF McpTypesOK
  <2> QED
    BY <1>3, <1>4, <2>1, ToolsTyped DEF McpInv, ContextOK
<1>6. NextOK'
  <2> SUFFICES ASSUME Preparing PROVE NextOK'
    BY DEF NextOK, Preparing
  <2>1. work.next \in Tools
    BY <1>1, PickingTyped
  <2>2. \A s \in DOMAIN work.next : s \in Server /\ work.next[s] \in Entry
    BY <2>1, ToolsTyped
  <2> QED
    BY <1>3, <1>4, <2>2 DEF McpInv, NextOK, Preparing
<1>7. OpenIsOwned'
  BY DEF McpInv, OpenIsOwned, Owned, Used, Preparing, Moves
<1> QED
  BY <1>2, <1>5, <1>6, <1>7 DEF McpInv

\* One connection: a notice or an ending teaches it a revision, other steps leave what it knows.
MovesTo(old, new) ==
  /\ new.server = old.server /\ old.changed <= new.changed
  /\ new.end = old.end \/ (old.end = "open" /\ new.end = "lost")
  /\ new.changed = old.changed => new.listening = old.listening
  /\ new.changed = old.changed /\ new.end = "open" => new.notes = old.notes

\* Each step of a single connection is such a move.
LEMMA NoticeMoves ==
  ASSUME NEW r \in Conn, r.notes > 0
  PROVE  LET n == [r EXCEPT !.notes = @ - 1, !.changed = @ + 1] IN n \in Conn /\ MovesTo(r, n)
<1> DEFINE m1 == [r EXCEPT !.notes = r.notes - 1]
<1>1. /\ m1 \in Conn /\ m1.notes = r.notes - 1
      /\ m1.server = r.server /\ m1.changed = r.changed /\ m1.listening = r.listening
      /\ m1.end = r.end /\ m1.process = r.process
  BY DEF Conn
<1> HIDE DEF m1
<1> DEFINE m2 == [m1 EXCEPT !.changed = r.changed + 1]
<1>2. /\ m2 \in Conn /\ m2.changed = r.changed + 1
      /\ m2.server = m1.server /\ m2.notes = m1.notes /\ m2.listening = m1.listening
      /\ m2.end = m1.end /\ m2.process = m1.process
  BY <1>1 DEF Conn
<1> HIDE DEF m2
<1>3. r.changed \in Nat /\ MovesTo(r, m2)
  BY <1>1, <1>2 DEF Conn, MovesTo
<1> QED
  BY <1>2, <1>3 DEF m1, m2

LEMMA EndingMoves ==
  ASSUME NEW r \in Conn
  PROVE  LET n == [r EXCEPT !.listening = FALSE, !.changed = @ + 1] IN n \in Conn /\ MovesTo(r, n)
<1> DEFINE m1 == [r EXCEPT !.listening = FALSE]
<1>1. /\ m1 \in Conn /\ m1.listening = FALSE
      /\ m1.server = r.server /\ m1.changed = r.changed /\ m1.notes = r.notes
      /\ m1.end = r.end /\ m1.process = r.process
  BY DEF Conn
<1> HIDE DEF m1
<1> DEFINE m2 == [m1 EXCEPT !.changed = r.changed + 1]
<1>2. /\ m2 \in Conn /\ m2.changed = r.changed + 1
      /\ m2.server = m1.server /\ m2.notes = m1.notes /\ m2.listening = m1.listening
      /\ m2.end = m1.end /\ m2.process = m1.process
  BY <1>1 DEF Conn
<1> HIDE DEF m2
<1>3. r.changed \in Nat /\ MovesTo(r, m2)
  BY <1>1, <1>2 DEF Conn, MovesTo
<1> QED
  BY <1>2, <1>3 DEF m1, m2

LEMMA HangUpMoves ==
  ASSUME NEW r \in Conn, NEW p \in {"gone", r.process}, r.end = "open"
  PROVE  LET n == [r EXCEPT !.end = "lost", !.notes = 0, !.process = p] IN n \in Conn /\ MovesTo(r, n)
<1> DEFINE m1 == [r EXCEPT !.end = "lost"]
<1>1. /\ m1 \in Conn /\ m1.end = "lost"
      /\ m1.server = r.server /\ m1.changed = r.changed /\ m1.notes = r.notes
      /\ m1.listening = r.listening /\ m1.process = r.process
  BY DEF Conn
<1> HIDE DEF m1
<1> DEFINE m2 == [m1 EXCEPT !.notes = 0]
<1>2. /\ m2 \in Conn /\ m2.notes = 0
      /\ m2.server = m1.server /\ m2.changed = m1.changed /\ m2.listening = m1.listening
      /\ m2.end = m1.end /\ m2.process = m1.process
  BY <1>1 DEF Conn
<1> HIDE DEF m2
<1> DEFINE m3 == [m2 EXCEPT !.process = p]
<1>3. /\ m3 \in Conn /\ m3.process = p
      /\ m3.server = m2.server /\ m3.changed = m2.changed /\ m3.notes = m2.notes
      /\ m3.listening = m2.listening /\ m3.end = m2.end
  BY <1>2 DEF Conn
<1> HIDE DEF m3
<1>4. r.changed \in Nat /\ MovesTo(r, m3)
  BY <1>1, <1>2, <1>3 DEF Conn, MovesTo
<1> QED
  BY <1>3, <1>4 DEF m1, m2, m3

LEMMA TermMoves ==
  ASSUME NEW r \in Conn
  PROVE  LET n == [r EXCEPT !.process = "term"] IN n \in Conn /\ MovesTo(r, n)
BY DEF Conn, MovesTo

LEMMA GoneMoves ==
  ASSUME NEW r \in Conn
  PROVE  LET n == [r EXCEPT !.process = "gone"] IN n \in Conn /\ MovesTo(r, n)
BY DEF Conn, MovesTo

LEMMA HangMoves ==
  ASSUME NEW r \in Conn, NEW b \in BOOLEAN
  PROVE  LET n == [r EXCEPT !.reads = b] IN n \in Conn /\ MovesTo(r, n)
BY DEF Conn, MovesTo

\* A server's own steps, and those of processes, are such moves.
LEMMA ServersMove ==
  ASSUME McpInv, Mcp!Servers \/ Mcp!ProcessSteps
  PROVE  Moves /\ UNCHANGED << context, work >>
<1>1. McpTypesOK /\ conns \in Seq(Conn) /\ catalog \in [Server -> Nat]
  BY DEF McpInv, McpTypesOK
<1>2. \A c \in DOMAIN conns :
        /\ conns[c].changed \in Nat /\ conns[c].notes \in Nat /\ conns[c] \in Conn
        /\ conns[c].server \in Server
  BY <1>1, ConnTyped DEF Conn
<1>3. ASSUME NEW s \in Server, Mcp!ServerChanges(s)
      PROVE  Moves /\ UNCHANGED << context, work >>
  <2>1. /\ catalog' = [catalog EXCEPT ![s] = @ + 1] /\ UNCHANGED << context, work >>
        /\ conns' = [c \in DOMAIN conns |->
                       IF conns[c].server = s /\ conns[c].listening /\ conns[c].end = "open"
                       THEN [conns[c] EXCEPT !.notes = @ + 1] ELSE conns[c]]
    BY <1>3 DEF Mcp!ServerChanges, Mcp!Conns, Mcp!IsOpen
  <2>2. catalog' \in [Server -> Nat]
    BY <1>1, <2>1
  <2>3. \A c \in DOMAIN conns : [conns[c] EXCEPT !.notes = @ + 1] \in Conn
    BY <1>2 DEF Conn
  <2>4. conns' \in Seq(Conn) /\ DOMAIN conns' = DOMAIN conns
    <3>1. conns' \in [1..Len(conns) -> Conn]
      BY <1>1, <1>2, <2>1, <2>3
    <3> QED
      BY <1>1, <3>1
  <2>5. \A c \in DOMAIN conns :
          /\ conns'[c].server = conns[c].server /\ conns'[c].changed = conns[c].changed
          /\ conns'[c].end = conns[c].end /\ conns'[c].listening = conns[c].listening
          /\ conns'[c].notes = IF conns[c].server = s /\ conns[c].listening /\ conns[c].end = "open"
                               THEN conns[c].notes + 1 ELSE conns[c].notes
    BY <1>2, <2>1 DEF Conn
  <2> QED
    BY <1>1, <1>2, <2>1, <2>2, <2>4, <2>5 DEF Moves
<1>4. ASSUME NEW c \in DOMAIN conns,
             \/ Mcp!Notice(c) \/ Mcp!SubscriptionEnds(c) \/ Mcp!HangUp(c) \/ Mcp!Hangs(c) \/ Mcp!Resumes(c)
             \/ Mcp!Terminate(c) \/ Mcp!Reap(c)
      PROVE  Moves /\ UNCHANGED << context, work >>
  <2>1. UNCHANGED << catalog, context, work >>
    BY <1>4 DEF Mcp!Notice, Mcp!SubscriptionEnds, Mcp!HangUp, Mcp!Hangs, Mcp!Resumes, Mcp!Terminate,
       Mcp!Reap
  <2>2. PICK new \in Conn :
          conns' = [conns EXCEPT ![c] = new] /\ MovesTo(conns[c], new)
    <3>1. CASE Mcp!Notice(c)
      <4>1. conns' = [conns EXCEPT ![c] = [conns[c] EXCEPT !.notes = @ - 1, !.changed = @ + 1]]
            /\ conns[c].notes > 0
        BY <3>1 DEF Mcp!Notice
      <4> QED
        BY <1>2, <4>1, NoticeMoves
    <3>2. CASE Mcp!SubscriptionEnds(c)
      <4>1. conns' = [conns EXCEPT ![c] = [conns[c] EXCEPT !.listening = FALSE, !.changed = @ + 1]]
        BY <3>2 DEF Mcp!SubscriptionEnds
      <4> QED
        BY <1>2, <4>1, EndingMoves
    <3>3. CASE Mcp!HangUp(c)
      <4>1. PICK p : /\ conns' = [conns EXCEPT ![c] = [conns[c] EXCEPT !.end = "lost", !.notes = 0, !.process = p]]
                     /\ p \in {"gone", conns[c].process} /\ conns[c].end = "open"
        BY <3>3 DEF Mcp!HangUp, Mcp!IsOpen
      <4> QED
        BY <1>2, <4>1, HangUpMoves
    <3>4. CASE Mcp!Terminate(c)
      <4>1. conns' = [conns EXCEPT ![c] = [conns[c] EXCEPT !.process = "term"]]
        BY <3>4 DEF Mcp!Terminate
      <4> QED
        BY <1>2, <4>1, TermMoves
    <3>5. CASE Mcp!Reap(c)
      <4>1. conns' = [conns EXCEPT ![c] = [conns[c] EXCEPT !.process = "gone"]]
        BY <3>5 DEF Mcp!Reap
      <4> QED
        BY <1>2, <4>1, GoneMoves
    <3>6. CASE Mcp!Hangs(c) \/ Mcp!Resumes(c)
      <4>1. PICK b \in BOOLEAN : conns' = [conns EXCEPT ![c] = [conns[c] EXCEPT !.reads = b]]
        BY <3>6 DEF Mcp!Hangs, Mcp!Resumes
      <4> QED
        BY <1>2, <4>1, HangMoves
    <3> QED
      BY <1>4, <3>1, <3>2, <3>3, <3>4, <3>5, <3>6
  <2>3. conns' \in Seq(Conn) /\ DOMAIN conns' = DOMAIN conns
    BY <1>1, <2>2
  <2>4. \A d \in DOMAIN conns : conns'[d] = IF d = c THEN new ELSE conns[d]
    BY <1>1, <2>2
  <2> QED
    BY <1>1, <1>2, <2>1, <2>2, <2>3, <2>4 DEF Moves, MovesTo
<1> QED
  BY <1>3, <1>4 DEF Mcp!Servers, Mcp!ProcessSteps, Mcp!Conns, Server

\* A closed connection.
LEMMA ClosedOne ==
  ASSUME NEW r \in Conn
  PROVE  LET n == [r EXCEPT !.end = "closed", !.notes = 0]
         IN n \in Conn /\ n.end = "closed" /\ n.server = r.server /\ n.changed = r.changed
<1> DEFINE m1 == [r EXCEPT !.end = "closed"]
<1>1. m1 \in Conn /\ m1.end = "closed" /\ m1.server = r.server /\ m1.changed = r.changed
  BY DEF Conn
<1> HIDE DEF m1
<1> DEFINE m2 == [m1 EXCEPT !.notes = 0]
<1>2. m2 \in Conn /\ m2.end = "closed" /\ m2.server = r.server /\ m2.changed = r.changed
  BY <1>1 DEF Conn
<1> QED
  BY <1>2 DEF m1

\* Closing connections leaves the others alone.
LEMMA ClosedKeeps ==
  ASSUME McpTypesOK, NEW cs
  PROVE  /\ Mcp!Closed(cs) \in Seq(Conn) /\ DOMAIN Mcp!Closed(cs) = DOMAIN conns
         /\ \A c \in DOMAIN conns :
              /\ c \notin cs => Mcp!Closed(cs)[c] = conns[c]
              /\ c \in cs => Mcp!Closed(cs)[c].end # "open"
<1>1. conns \in Seq(Conn)
  BY DEF McpTypesOK
<1> DEFINE shut(c) == [conns[c] EXCEPT !.end = "closed", !.notes = 0]
<1>2. \A c \in DOMAIN conns : shut(c) \in Conn /\ shut(c).end = "closed"
  BY <1>1, ConnTyped, ClosedOne
<1> HIDE DEF shut
<1>3. Mcp!Closed(cs) = [c \in DOMAIN conns |-> IF c \in cs /\ conns[c].end = "open" THEN shut(c) ELSE conns[c]]
  BY DEF Mcp!Closed, Mcp!IsOpen, Mcp!Conns, shut
<1>4. Mcp!Closed(cs) \in [1..Len(conns) -> Conn]
  <2>1. \A c \in DOMAIN conns : conns[c] \in Conn
    BY <1>1
  <2>2. DOMAIN conns = 1..Len(conns)
    BY <1>1
  <2> QED
    BY <1>2, <1>3, <2>1, <2>2
<1>5. Mcp!Closed(cs) \in Seq(Conn) /\ DOMAIN Mcp!Closed(cs) = DOMAIN conns
  BY <1>1, <1>4
<1> QED
  BY <1>2, <1>3, <1>5

\* A step that touches no connection and prepares nothing.
LEMMA QuietKeeps ==
  ASSUME McpInv, UNCHANGED << catalog, conns, context >>, ~Preparing, ~Preparing',
         work' \in Calling \cup AtRest
  PROVE  McpInv'
<1>1. McpTypesOK'
  BY DEF McpInv, McpTypesOK
<1>2. ContextOK' /\ NextOK'
  BY DEF McpInv, ContextOK, NextOK
<1>3. OpenIsOwned'
  BY DEF McpInv, OpenIsOwned, Owned, Used
<1> QED
  BY <1>1, <1>2, <1>3 DEF McpInv

\* A call is such a step, and ends as one.
LEMMA CallsKeep ==
  ASSUME McpInv, Mcp!Call \/ Mcp!Calling \/ Mcp!CallOver \/ Mcp!CloseDone
  PROVE  McpInv'
<1>1. work \in Picking \cup Calling \cup AtRest /\ context \in Tools
  BY DEF McpInv, McpTypesOK
<1>2. UNCHANGED << catalog, conns, context >>
  BY DEF Mcp!Call, Mcp!Calling, Mcp!CallOver, Mcp!CloseDone, Mcp!Permit, Mcp!Deny, Mcp!Answered,
     Mcp!Request, Mcp!Continue, Mcp!CallEnds
<1>3. [pc |-> "idle"] \in AtRest
  BY DEF AtRest
<1>4. CASE Mcp!Call
  <2>1. PICK s \in DOMAIN context, operation \in {"tool", "resources", "read_resource"} :
          work' = [pc |-> IF operation = "resources" THEN "allowed" ELSE "ask",
                   server |-> s, operation |-> operation, round |-> 0]
    BY <1>4 DEF Mcp!Call
  <2>2. work = [pc |-> "idle"]
    BY <1>4 DEF Mcp!Call, Mcp!Idle
  <2>3. s \in Server
    BY <1>1, ToolsTyped
  <2>4. work' \in Calling
    BY <2>1, <2>3 DEF Calling
  <2> QED
    BY <1>2, <2>1, <2>2, <2>4, QuietKeeps DEF Preparing
<1>5. CASE Mcp!Calling \/ Mcp!CallOver \/ Mcp!CloseDone
  <2>1. work.pc \in {"ask", "allowed", "sent", "closing"}
    BY <1>5 DEF Mcp!Calling, Mcp!CallOver, Mcp!CloseDone, Mcp!Permit, Mcp!Deny, Mcp!Answered,
       Mcp!Request, Mcp!Continue, Mcp!CallEnds
  <2>2. work.pc # "closing" => work \in Calling
    BY <1>1, <2>1 DEF Picking, Calling, AtRest
  <2>3. \/ work' = [pc |-> "idle"]
        \/ work \in Calling /\ work' = [work EXCEPT !.pc = "allowed"]
        \/ work \in Calling /\ work' = [work EXCEPT !.pc = "sent", !.round = @ + 1]
    BY <1>5, <2>2 DEF Mcp!Calling, Mcp!CallOver, Mcp!CloseDone, Mcp!Permit, Mcp!Deny, Mcp!Answered,
       Mcp!Request, Mcp!Continue, Mcp!CallEnds, Mcp!Idle
  <2>4. work' \in Calling \cup AtRest /\ work'.pc \in {"idle", "allowed", "sent"}
    <3>1. CASE work \in Calling /\ work' = [work EXCEPT !.pc = "allowed"]
      BY <3>1 DEF Calling
    <3>2. CASE work \in Calling /\ work' = [work EXCEPT !.pc = "sent", !.round = @ + 1]
      <4> DEFINE m == [work EXCEPT !.pc = "sent"]
      <4>1. m \in Calling /\ m.pc = "sent" /\ m.round \in Nat /\ m.round = work.round
        BY <3>2 DEF Calling
      <4>2. work' = [m EXCEPT !.round = work.round + 1]
        BY <3>2
      <4> HIDE DEF m
      <4> QED
        BY <4>1, <4>2 DEF Calling
    <3> QED
      BY <1>3, <2>3, <3>1, <3>2
  <2> QED
    BY <1>2, <2>1, <2>4, QuietKeeps DEF Preparing
<1> QED
  BY <1>4, <1>5

\* A selection begins with nothing prepared.
LEMMA SelectKeeps == ASSUME McpInv, Mcp!Select PROVE McpInv'
<1>1. PICK todo \in SUBSET Server : work' = [pc |-> "connect", todo |-> todo, next |-> [s \in {} |-> 0]]
  BY DEF Mcp!Select, Mcp!Resolve, Mcp!Unresolved, Mcp!Empty, Server
<1>2. UNCHANGED << catalog, conns, context >> /\ ~Preparing
  BY DEF Mcp!Select, Mcp!Idle, Preparing
<1>3. [s \in {} |-> 0] \in Tools
  BY DEF Tools
<1>4. McpTypesOK'
  BY <1>1, <1>2, <1>3 DEF McpInv, McpTypesOK, Picking
<1>5. ContextOK' /\ NextOK'
  BY <1>1, <1>2 DEF McpInv, ContextOK, NextOK
<1>6. OpenIsOwned'
  BY <1>1, <1>2 DEF McpInv, OpenIsOwned, Owned, Used
<1> QED
  BY <1>4, <1>5, <1>6 DEF McpInv

\* The context stays as good as it was, when no connection of it is touched.
LEMMA ContextStays ==
  ASSUME McpInv, UNCHANGED << catalog, context >>, DOMAIN conns \subseteq DOMAIN conns',
         \A c \in Used(context) : conns'[c] = conns[c]
  PROVE  ContextOK'
BY DEF McpInv, ContextOK, Fits, Fresh, Used

\* What is prepared joins the context: connections that one of both has stay open.
LEMMA PrepareKeeps == ASSUME McpInv, Mcp!Reuse \/ Mcp!Connect PROVE McpInv'
<1>1. McpTypesOK /\ conns \in Seq(Conn) /\ catalog \in [Server -> Nat] /\ context \in Tools
  BY DEF McpInv, McpTypesOK
<1>2. work.pc = "connect" /\ UNCHANGED << catalog, context >>
  BY DEF Mcp!Reuse, Mcp!Connect
<1>3. work \in Picking /\ work.next \in Tools /\ work.todo \subseteq Server
  BY <1>1, <1>2, PickingTyped DEF Preparing
<1>4. PICK s \in work.todo, c \in Nat :
        /\ Mcp!Prepare(s, c)
        /\ c \in DOMAIN conns' /\ conns'[c].server = s /\ conns'[c].end # "closed"
        /\ conns' \in Seq(Conn) /\ DOMAIN conns \subseteq DOMAIN conns'
        /\ \A d \in DOMAIN conns : conns'[d] = conns[d]
        /\ \A d \in DOMAIN conns' \ DOMAIN conns : d = c
  <2>1. CASE Mcp!Reuse
    <3>1. PICK s \in work.todo \cap DOMAIN context : Mcp!Prepare(s, context[s].conn)
      BY <2>1 DEF Mcp!Reuse
    <3>2. conns' = conns
      BY <2>1 DEF Mcp!Reuse
    <3>3. Fits(context[s], s, conns) /\ context[s].conn \in Nat
      BY <1>1, ToolsTyped DEF McpInv, ContextOK, Entry
    <3> QED
      BY <1>1, <3>1, <3>2, <3>3 DEF Fits
  <2>2. CASE Mcp!Connect
    <3>1. PICK s \in work.todo : conns' = Append(conns, Mcp!NewConnection(s)) /\ Mcp!Prepare(s, Len(conns) + 1)
      BY <2>2 DEF Mcp!Connect
    <3>2. PICK n \in Conn : n = Mcp!NewConnection(s) /\ n.server = s /\ n.end = "open"
      <4>1. s \in Server
        BY <1>3
      <4>2. Mcp!NewConnection(s) \in Conn
        BY <4>1 DEF Mcp!NewConnection, Conn
      <4> QED
        BY <4>2 DEF Mcp!NewConnection
    <3>3. conns' = Append(conns, n)
      BY <3>1, <3>2
    <3>4. /\ conns' \in Seq(Conn) /\ Len(conns) \in Nat
          /\ DOMAIN conns = 1..Len(conns) /\ DOMAIN conns' = 1..(Len(conns) + 1)
          /\ conns'[Len(conns) + 1] = n
          /\ \A d \in 1..Len(conns) : conns'[d] = conns[d]
      BY <1>1, <3>3
    <3>5. \A d \in DOMAIN conns' \ DOMAIN conns : d = Len(conns) + 1
      BY <3>4
    <3>6. Len(conns) + 1 \in DOMAIN conns' /\ DOMAIN conns \subseteq DOMAIN conns' /\ Len(conns) + 1 \in Nat
      BY <3>4
    <3> QED
      BY <3>1, <3>2, <3>4, <3>5, <3>6
  <2> QED
    BY <2>1, <2>2
<1> DEFINE entry == [conn |-> c, revision |-> conns'[c].changed, version |-> 0]
           next == [t \in {s} \cup DOMAIN work.next |-> IF t = s THEN entry ELSE work.next[t]]
<1>5. work' = [pc |-> "list", todo |-> work.todo \ {s}, preparing |-> s, next |-> next]
  BY <1>4 DEF Mcp!Prepare
<1>6. s \in Server /\ entry \in Entry /\ conns'[c].changed \in Nat
  <2>1. conns'[c] \in Conn
    BY <1>4
  <2>2. conns'[c].changed \in Nat
    BY <2>1 DEF Conn
  <2> QED
    BY <1>3, <1>4, <2>2 DEF Entry
<1>7. next \in Tools
  <2> HIDE DEF entry
  <2>1. \A t \in DOMAIN work.next : t \in Server /\ work.next[t] \in Entry
    BY <1>3, ToolsTyped
  <2>2. next \in [{s} \cup DOMAIN work.next -> Entry]
    BY <1>6, <2>1
  <2>3. {s} \cup DOMAIN work.next \in SUBSET Server
    BY <1>6, <2>1
  <2> HIDE DEF next
  <2> QED
    BY <2>2, <2>3 DEF Tools
<1>8. Fits(entry, s, conns') /\ entry.conn = c
  <2>1. entry.conn = c /\ entry.revision = conns'[c].changed
    OBVIOUS
  <2> HIDE DEF entry
  <2> QED
    BY <1>4, <1>6, <2>1 DEF Fits
<1>9. DOMAIN next = {s} \cup DOMAIN work.next /\ next[s] = entry
      /\ \A t \in DOMAIN work.next : t # s => next[t] = work.next[t]
  OBVIOUS
<1> HIDE DEF next, entry
<1>10. McpTypesOK'
  <2>1. work' \in Picking
    BY <1>3, <1>5, <1>6, <1>7 DEF Picking
  <2> QED
    BY <1>1, <1>2, <1>4, <2>1 DEF McpTypesOK
<1>11. ContextOK'
  <2>1. \A d \in Used(context) : d \in DOMAIN conns
    BY DEF McpInv, ContextOK, Fits, Used
  <2> QED
    BY <1>2, <1>4, <2>1, ContextStays
<1>12. s \notin DOMAIN work.next /\ (work.todo \ {s}) \cap DOMAIN next = {}
  BY <1>2, <1>4, <1>9 DEF McpInv, NextOK, Preparing
<1>13. NextOK'
  <2>1. \A t \in DOMAIN work.next :
          Fits(work.next[t], t, conns') /\ Fresh(work.next[t], t, conns', catalog)
    BY <1>2, <1>4 DEF McpInv, NextOK, Preparing, Fits, Fresh
  <2>2. /\ work'.pc = "list" /\ work'.next = next /\ work'.preparing = s
        /\ work'.todo = work.todo \ {s} /\ catalog' = catalog
    BY <1>2, <1>5
  <2> QED
    BY <1>8, <1>9, <1>12, <2>1, <2>2 DEF NextOK, Preparing
<1>14. OpenIsOwned'
  <2>1. \A t \in DOMAIN work.next : work.next[t].conn \in Used(next)
    BY <1>9, <1>12 DEF Used
  <2>2. c \in Used(next)
    BY <1>8, <1>9 DEF Used
  <2>3. work'.pc = "list" /\ work'.next = next /\ context' = context
    BY <1>2, <1>5
  <2>4. Owned' = Used(context) \cup Used(next)
    BY <2>3 DEF Owned, Preparing, Used
  <2>5. Owned = Used(context) \cup Used(work.next)
    BY <1>2 DEF Owned, Preparing
  <2>6. Used(work.next) \subseteq Used(next)
    BY <2>1 DEF Used
  <2>7. \A d \in DOMAIN conns : conns[d].end = "open" => d \in Used(context) \cup Used(next)
    BY <2>5, <2>6 DEF McpInv, OpenIsOwned
  <2> QED
    BY <1>4, <2>2, <2>4, <2>7 DEF OpenIsOwned
<1> QED
  BY <1>10, <1>11, <1>13, <1>14 DEF McpInv

\* A listing is of now, and is taken under the revision read before it.
LEMMA ListKeeps == ASSUME McpInv, Mcp!List \/ Mcp!Take PROVE McpInv'
<1>1. McpTypesOK /\ catalog \in [Server -> Nat] /\ UNCHANGED << catalog, conns, context >>
  BY DEF McpInv, McpTypesOK, Mcp!List, Mcp!Take
<1>2. work.pc \in {"list", "listed"}
  BY DEF Mcp!List, Mcp!Take
<1>3. work \in Picking /\ work.next \in Tools
  BY <1>1, <1>2, PickingTyped DEF Preparing
<1>4. work \in [pc : {"list", "listed"}, todo : SUBSET Server, preparing : Server, next : Tools]
  BY <1>2, <1>3 DEF Picking
<1>5. /\ work.preparing \in DOMAIN work.next /\ work.todo \cap DOMAIN work.next = {}
      /\ \A s \in DOMAIN work.next : s # work.preparing => Fresh(work.next[s], s, conns, catalog)
      /\ \A s \in DOMAIN work.next : Fits(work.next[s], s, conns)
      /\ work.pc = "listed" => Fresh(work.next[work.preparing], work.preparing, conns, catalog)
  BY <1>2 DEF McpInv, NextOK, Preparing
<1> DEFINE s == work.preparing
<1>6. s \in Server /\ work.next[s] \in Entry /\ DOMAIN work.next \subseteq Server
  BY <1>3, <1>5, ToolsTyped
<1>7. PICK entry \in Entry, next \in Tools, pc \in {"connect", "listed"} :
        /\ work' = [pc |-> pc, todo |-> work.todo, preparing |-> s, next |-> next]
        /\ next = [work.next EXCEPT ![s] = entry]
        /\ entry.conn = work.next[s].conn /\ entry.revision = work.next[s].revision
        /\ Fresh(entry, s, conns, catalog)
  <2>1. CASE Mcp!List
    <3> DEFINE old == work.next[s]
               entry == [old EXCEPT !.version = catalog[s]]
               next == [work.next EXCEPT ![s] = entry]
    <3>1. entry \in Entry /\ entry.conn = old.conn /\ entry.revision = old.revision
          /\ entry.version = catalog[s]
      <4>1. old \in Entry /\ catalog[s] \in Nat
        BY <1>1, <1>6
      <4> HIDE DEF old, s
      <4> QED
        BY <4>1 DEF Entry
    <3>2. work' = [work EXCEPT !.pc = "listed", !.next = next]
      BY <2>1 DEF Mcp!List
    <3> HIDE DEF entry
    <3>3. next \in Tools
      BY <1>3, <1>5, <3>1, <1>6 DEF Tools
    <3> HIDE DEF next
    <3>4. work' = [pc |-> "listed", todo |-> work.todo, preparing |-> s, next |-> next]
      BY <1>4, <3>2, <3>3
    <3>5. Fresh(entry, s, conns, catalog)
      BY <3>1 DEF Fresh
    <3> QED
      BY <3>1, <3>3, <3>4, <3>5 DEF next
  <2>2. CASE Mcp!Take
    <3>1. work.pc = "listed" /\ work' = [work EXCEPT !.pc = "connect", !.next[s] = @]
      BY <2>2 DEF Mcp!Take, Mcp!Taken
    <3>2. work.next = [work.next EXCEPT ![s] = work.next[s]]
      BY <1>3, <1>5 DEF Tools
    <3>3. work' = [pc |-> "connect", todo |-> work.todo, preparing |-> s, next |-> work.next]
      BY <1>4, <3>1, <3>2
    <3> QED
      BY <1>3, <1>5, <1>6, <3>1, <3>2, <3>3
  <2> QED
    BY <2>1, <2>2
<1>8. work' \in Picking
  BY <1>4, <1>7 DEF Picking
<1>9. /\ work'.pc = pc /\ work'.next = next /\ work'.preparing = s /\ work'.todo = work.todo
      /\ DOMAIN next = DOMAIN work.next /\ next[s] = entry
      /\ \A t \in DOMAIN next : t # s => next[t] = work.next[t]
  BY <1>3, <1>5, <1>7 DEF Tools
<1>10. McpTypesOK'
  BY <1>1, <1>8 DEF McpTypesOK
<1>11. ContextOK'
  BY <1>1 DEF McpInv, ContextOK
<1>12. Fits(entry, s, conns)
  BY <1>5, <1>7 DEF Fits
<1>13. NextOK'
  BY <1>1, <1>5, <1>7, <1>9, <1>12 DEF NextOK, Preparing
<1>14. OpenIsOwned'
  <2>1. \A t \in DOMAIN next : next[t].conn = work.next[t].conn
    BY <1>7, <1>9
  <2>2. Used(next) = Used(work.next)
    BY <1>9, <2>1 DEF Used
  <2>3. Owned' = Owned
    BY <1>1, <1>2, <1>7, <1>9, <2>2 DEF Owned, Preparing, Used
  <2> QED
    BY <1>1, <2>3 DEF McpInv, OpenIsOwned
<1> QED
  BY <1>10, <1>11, <1>13, <1>14 DEF McpInv

\* An abandoned selection takes only its own connections along.
LEMMA AbortKeeps == ASSUME McpInv, Mcp!Abort PROVE McpInv'
<1>1. McpTypesOK /\ UNCHANGED << catalog, context >> /\ Preparing /\ work' = [pc |-> "idle"]
  BY DEF McpInv, Mcp!Abort, Mcp!Selecting, Mcp!Idle, Preparing
<1> DEFINE gone == Used(work.next) \ Used(context)
<1> DEFINE shut == Mcp!Closed(gone)
<1>2. conns' = shut \/ \E n \in Conn : n.end = "closed" /\ conns' = Append(shut, n)
  <2>1. gone = Mcp!Dropped
    BY DEF Mcp!Dropped, Mcp!AllDropped, Mcp!ConnsOf, Used
  <2>2. CASE \E s \in Mcp!Started : conns' = Append(shut, Mcp!Left(s))
    <3>1. PICK s \in Mcp!Started : conns' = Append(shut, Mcp!Left(s))
      BY <2>2
    <3>2. work \in Picking /\ work.todo \subseteq Server
      BY <1>1, PickingTyped
    <3>3. s \in Server
      BY <3>1, <3>2 DEF Mcp!Started
    <3>4. Mcp!NewConnection(s) \in Conn
      BY <3>3 DEF Mcp!NewConnection, Conn
    <3>5. Mcp!Left(s) \in Conn /\ Mcp!Left(s).end = "closed"
      BY <3>4 DEF Mcp!Left, Conn
    <3> QED
      BY <3>1, <3>5
  <2> QED
    BY <2>1, <2>2 DEF Mcp!Abort
<1> HIDE DEF gone
<1>3. /\ conns' \in Seq(Conn) /\ DOMAIN conns \subseteq DOMAIN conns'
      /\ \A c \in DOMAIN conns : /\ c \notin gone => conns'[c] = conns[c]
                                 /\ c \in gone => conns'[c].end # "open"
      /\ \A c \in DOMAIN conns' \ DOMAIN conns : conns'[c].end = "closed"
  <2>1. /\ shut \in Seq(Conn) /\ DOMAIN shut = DOMAIN conns
        /\ \A c \in DOMAIN conns : /\ c \notin gone => shut[c] = conns[c]
                                   /\ c \in gone => shut[c].end # "open"
    BY <1>1, ClosedKeeps
  <2> HIDE DEF shut
  <2>2. CASE conns' = shut
    BY <2>1, <2>2
  <2>3. ASSUME NEW n \in Conn, n.end = "closed", conns' = Append(shut, n)
        PROVE  /\ conns' \in Seq(Conn) /\ DOMAIN shut \subseteq DOMAIN conns'
               /\ \A c \in DOMAIN shut : conns'[c] = shut[c]
               /\ \A c \in DOMAIN conns' \ DOMAIN shut : conns'[c].end = "closed"
    <3>1. /\ conns' \in Seq(Conn) /\ Len(shut) \in Nat
          /\ DOMAIN shut = 1..Len(shut) /\ DOMAIN conns' = 1..(Len(shut) + 1)
          /\ conns'[Len(shut) + 1] = n
          /\ \A c \in 1..Len(shut) : conns'[c] = shut[c]
      BY <2>1, <2>3
    <3>2. \A c \in DOMAIN conns' \ DOMAIN shut : c = Len(shut) + 1
      BY <3>1
    <3>3. DOMAIN shut \subseteq DOMAIN conns'
      BY <3>1
    <3> QED
      BY <2>3, <3>1, <3>2, <3>3
  <2> QED
    BY <1>2, <2>1, <2>2, <2>3
<1>4. McpTypesOK'
  BY <1>1, <1>3 DEF McpTypesOK, AtRest
<1>5. ContextOK'
  <2>1. \A c \in Used(context) : c \in DOMAIN conns /\ c \notin gone
    BY DEF McpInv, ContextOK, Fits, Used, gone
  <2> QED
    BY <1>1, <1>3, <2>1, ContextStays
<1>6. NextOK' /\ ~Preparing'
  BY <1>1 DEF NextOK, Preparing
<1>7. OpenIsOwned'
  <2>1. Owned = Used(context) \cup Used(work.next) /\ Owned' = Used(context)
    BY <1>1, <1>6 DEF Owned, Used
  <2> QED
    BY <1>3, <2>1 DEF McpInv, OpenIsOwned, gone
<1> QED
  BY <1>4, <1>5, <1>6, <1>7 DEF McpInv

\* The new context keeps what it shares with the old one, and the rest of that is closed.
LEMMA SwapKeeps == ASSUME McpInv, Mcp!Swap PROVE McpInv'
<1>1. McpTypesOK /\ UNCHANGED catalog /\ Preparing /\ work.pc = "connect" /\ context' = work.next
  BY DEF McpInv, Mcp!Swap, Preparing
<1> DEFINE gone == Used(context) \ Used(work.next)
<1>2. conns' = Mcp!Closed(gone) /\ work' = [pc |-> "closing", olds |-> gone]
  BY DEF Mcp!Swap, Mcp!Replaced, Mcp!ConnsOf, Used
<1>3. gone \subseteq Nat
  BY <1>1, ToolsTyped DEF McpTypesOK, Used, Entry
<1> HIDE DEF gone
<1>4. /\ conns' \in Seq(Conn) /\ DOMAIN conns' = DOMAIN conns
      /\ \A c \in DOMAIN conns : /\ c \notin gone => conns'[c] = conns[c]
                                 /\ c \in gone => conns'[c].end # "open"
  BY <1>1, <1>2, ClosedKeeps
<1>5. work.next \in Tools
  BY <1>1, PickingTyped
<1>6. McpTypesOK'
  BY <1>1, <1>2, <1>3, <1>4, <1>5 DEF McpTypesOK, AtRest
<1>7. ContextOK'
  <2>1. \A s \in DOMAIN work.next :
          Fits(work.next[s], s, conns) /\ Fresh(work.next[s], s, conns, catalog)
    BY <1>1 DEF McpInv, NextOK
  <2>2. \A s \in DOMAIN work.next : work.next[s].conn \notin gone
    BY DEF gone, Used
  <2>3. \A s \in DOMAIN work.next :
          Fits(work.next[s], s, conns') /\ Fresh(work.next[s], s, conns', catalog)
    BY <1>4, <2>1, <2>2 DEF Fits, Fresh
  <2> QED
    BY <1>1, <2>3 DEF ContextOK
<1>8. NextOK' /\ ~Preparing'
  BY <1>2 DEF NextOK, Preparing
<1>9. OpenIsOwned'
  <2>1. Owned = Used(context) \cup Used(work.next) /\ Owned' = Used(work.next)
    BY <1>1, <1>8 DEF Owned, Used
  <2> QED
    BY <1>4, <2>1 DEF McpInv, OpenIsOwned, gone
<1> QED
  BY <1>6, <1>7, <1>8, <1>9 DEF McpInv

\* At the end nothing is left open.
LEMMA EndKeeps == ASSUME McpInv, Mcp!End PROVE McpInv'
<1>1. McpTypesOK /\ UNCHANGED catalog /\ ~Preparing /\ context' = [s \in {} |-> 0]
      /\ work' = [pc |-> "ended"]
  BY DEF McpInv, Mcp!End, Mcp!Idle, Mcp!Empty, Mcp!Ended, Preparing
<1> DEFINE gone == Used(context)
<1>2. conns' = Mcp!Closed(gone)
  BY DEF Mcp!End, Mcp!ConnsOf, Used
<1> HIDE DEF gone
<1>3. /\ conns' \in Seq(Conn) /\ DOMAIN conns' = DOMAIN conns
      /\ \A c \in DOMAIN conns : /\ c \notin gone => conns'[c] = conns[c]
                                 /\ c \in gone => conns'[c].end # "open"
  BY <1>1, <1>2, ClosedKeeps
<1>4. [s \in {} |-> 0] \in Tools
  BY DEF Tools
<1>5. McpTypesOK'
  BY <1>1, <1>3, <1>4 DEF McpTypesOK, AtRest
<1>6. ContextOK' /\ NextOK'
  BY <1>1 DEF ContextOK, NextOK, Preparing
<1>7. OpenIsOwned'
  <2>1. Owned = gone
    BY <1>1 DEF Owned, gone
  <2> QED
    BY <1>3, <2>1 DEF McpInv, OpenIsOwned
<1> QED
  BY <1>5, <1>6, <1>7 DEF McpInv

\* The driver's steps with its model touch none of this.
LEMMA OthersKeep ==
  ASSUME McpInv, UNCHANGED mcpVars
  PROVE  McpInv'
<1>1. UNCHANGED << catalog, conns, context, work >>
  BY DEF mcpVars
<1> QED
  BY <1>1 DEF McpInv, McpTypesOK, ContextOK, NextOK, OpenIsOwned, Owned, Preparing, Fits, Fresh, Used

\* So every step keeps the invariant.
LEMMA McpKeeps == ASSUME McpInv, [Next]_vars PROVE McpInv'
<1>1. CASE Talks \/ UNCHANGED vars
  BY <1>1, OthersKeep DEF Talks, vars
<1>2. CASE Selects
  <2>1. CASE Mcp!Interrupt
    <3>1. UNCHANGED mcpVars
      BY <2>1 DEF Mcp!Interrupt, mcpVars
    <3> QED
      BY <3>1, OthersKeep
  <2>2. CASE Mcp!SelectFails \/ Mcp!SelectInterrupted
    BY <2>2, AbortKeeps DEF Mcp!SelectFails, Mcp!SelectInterrupted
  <2> QED
    BY <1>2, <2>1, <2>2, SelectKeeps, PrepareKeeps, ListKeeps, SwapKeeps, EndKeeps, CallsKeep
    DEF Selects, Mcp!Selection
<1>3. CASE CallsServer \/ HasResult
  BY <1>3, CallsKeep DEF CallsServer, HasResult
<1>4. CASE Meanwhile
  BY <1>4, ServersMove, MovesKeep DEF Meanwhile
<1> QED
  BY <1>1, <1>2, <1>3, <1>4 DEF Next

\* A session begins without connections.
LEMMA McpStarts == Init => McpInv
<1> SUFFICES ASSUME Init PROVE McpInv
  OBVIOUS
<1>1. /\ catalog = [s \in Server |-> 0] /\ conns = << >> /\ context = [s \in {} |-> 0]
      /\ work = [pc |-> "idle"]
  BY DEF Init, Mcp!Init, Mcp!Empty, Mcp!Idle, Server
<1>2. [s \in {} |-> 0] \in Tools /\ [pc |-> "idle"] \in AtRest
  BY DEF Tools, AtRest
<1>3. McpTypesOK
  BY <1>1, <1>2 DEF McpTypesOK
<1>4. ContextOK /\ NextOK /\ OpenIsOwned
  BY <1>1 DEF ContextOK, NextOK, OpenIsOwned, Preparing
<1> QED
  BY <1>3, <1>4 DEF McpInv

LEMMA McpAlways == Spec => []McpInv
<1>1. McpInv /\ [Next]_vars => McpInv'
  BY McpKeeps
<1> QED
  BY McpStarts, <1>1, PTL DEF Spec

\* An entry that the next call would pass with has the tools its server has now, or a
\* notice that says otherwise has arrived, as long as the connection is told of changes
\* (McpTools::select, McpTools::execute, Connection::connect).
THEOREM UsableEntriesAreCurrent == Spec => []UsableIsCurrent
<1>1. McpInv => UsableIsCurrent
  BY DEF McpInv, ContextOK, Fresh, UsableIsCurrent, Mcp!UsableIsCurrent, Mcp!Current, Mcp!Usable, Mcp!IsOpen
<1> QED
  BY <1>1, McpAlways, PTL

\* Whatever selections fail, are interrupted or share servers: what the context has was
\* not closed here, and between works nothing else is open (replace_mcp, McpTools::close).
THEOREM SelectionsAreWhole == Spec => []SelectionIsWhole
<1>1. McpInv => SelectionIsWhole
  BY DEF McpInv, ContextOK, Fits, OpenIsOwned, Owned, Used, Preparing, SelectionIsWhole,
     Mcp!SelectionIsWhole, Mcp!ConnsOf, Mcp!Conns, Mcp!IsOpen
<1> QED
  BY <1>1, McpAlways, PTL

-----------------------------------------------------------------------------
(* What is shown.                                                          *)

\* All that is shown is of the attempt under way, and before anything is there is nothing
\* to repeat: only so a request is tried again.
ShowInv ==
  stream # NoStream =>
    /\ {"pc", "attempt", "emitted", "shown"} \subseteq DOMAIN stream
    /\ stream.emitted \in BOOLEAN /\ stream.shown \in Seq({stream.attempt})
    /\ ~stream.emitted => stream.shown = << >>
    /\ stream.pc = "backoff" => ~stream.emitted

\* A step of the stream that leaves what is shown as it is.
LEMMA ShowStays ==
  ASSUME ShowInv, stream # NoStream, stream'.pc # "backoff",
         DOMAIN stream \subseteq DOMAIN stream',
         \A f \in {"attempt", "emitted", "shown"} : stream'[f] = stream[f]
  PROVE  ShowInv'
BY DEF ShowInv

\* A request begins with nothing shown.
LEMMA AskShows ==
  ASSUME NEW who, NEW inputs, NEW messages, NEW retries, Ask(who, inputs, messages, retries)
  PROVE  ShowInv'
<1>1. << >> \in Seq({1})
  BY EmptySeq
<1> QED
  BY <1>1 DEF Ask, ShowInv

Changed(fields) == [f \in DOMAIN fields \cup DOMAIN stream |->
                      IF f \in DOMAIN fields THEN fields[f] ELSE stream[f]]

\* The steps of a stream.
LEMMA StepShows ==
  ASSUME ShowInv, Opened \/ Delta \/ BreaksAndRetries \/ Backoff \/ Ends
  PROVE  ShowInv'
<1>1. stream # NoStream
  BY DEF Opened, Delta, BreaksAndRetries, BreaksFor, Breaks, Backoff, Ends, Is, NoStream
<1>2. /\ {"pc", "attempt", "emitted", "shown"} \subseteq DOMAIN stream
      /\ stream.emitted \in BOOLEAN /\ stream.shown \in Seq({stream.attempt})
      /\ ~stream.emitted => stream.shown = << >>
      /\ stream.pc = "backoff" => ~stream.emitted
  BY <1>1 DEF ShowInv
<1>3. CASE Opened
  <2>1. stream' = Changed([pc |-> "stream", deltas |-> 0])
    BY <1>3 DEF Opened, Step, Changed
  <2> QED
    BY <1>1, <1>2, <2>1, ShowStays DEF Changed
<1>4. CASE Delta
  <2>1. PICK kind \in {"text", "reasoning"} :
          stream' = Changed([deltas |-> stream.deltas + 1, emitted |-> stream.emitted \/ Emits(kind),
                     shown |-> Append(stream.shown, stream.attempt)])
    BY <1>4 DEF Delta, Step, Changed
  <2>2. stream'.emitted /\ stream'.emitted \in BOOLEAN
    BY <1>2, <2>1 DEF Emits, Changed
  <2>3. /\ stream'.shown = Append(stream.shown, stream.attempt) /\ stream'.attempt = stream.attempt
        /\ DOMAIN stream \subseteq DOMAIN stream' /\ stream'.pc = stream.pc
    BY <1>2, <2>1 DEF Changed
  <2>4. stream'.shown \in Seq({stream'.attempt}) /\ stream'.pc # "backoff"
    BY <1>2, <1>4, <2>3, AppendProperties DEF Delta, Is
  <2> QED
    BY <1>2, <2>2, <2>3, <2>4 DEF ShowInv
<1>5. CASE BreaksAndRetries
  <2>1. stream' = Changed([pc |-> "backoff"]) /\ ~stream.emitted
    BY <1>2, <1>5 DEF BreaksAndRetries, BreaksFor, Again, Step, Changed
  <2> QED
    BY <1>2, <2>1 DEF ShowInv, Changed
<1>6. CASE Backoff
  <2>1. stream' = Changed([pc |-> "open", attempt |-> stream.attempt + 1]) /\ ~stream.emitted
    BY <1>2, <1>6 DEF Backoff, Step, Is, Changed
  <2>2. /\ stream'.shown = << >> /\ stream'.emitted = stream.emitted /\ stream'.pc = "open"
        /\ DOMAIN stream \subseteq DOMAIN stream'
    BY <1>2, <2>1 DEF Changed
  <2>3. stream'.shown \in Seq({stream'.attempt})
    BY <2>2, EmptySeq
  <2> QED
    BY <1>2, <2>1, <2>2, <2>3 DEF ShowInv
<1>7. CASE Ends
  <2>1. PICK answer : stream' = Changed([pc |-> "flush", answer |-> answer])
    BY <1>7 DEF Ends, Step, Changed
  <2> QED
    BY <1>1, <1>2, <2>1, ShowStays DEF Changed
<1> QED
  BY <1>3, <1>4, <1>5, <1>6, <1>7

\* The steps on the way to a stream and behind it.
LEMMA PassShows ==
  ASSUME ShowInv, Authorize \/ Authorized \/ Flush \/ Scold
  PROVE  ShowInv'
<1>1. stream # NoStream
  BY DEF Authorize, Authorized, Flush, Scold, OfJudge, Is, NoStream
<1>2. CASE Authorize \/ Authorized \/ Flush
  <2>1. \E pc \in {"tokens", "open", "done"} : stream' = [stream EXCEPT !.pc = pc]
    BY <1>2 DEF Authorize, Authorized, Flush
  <2> QED
    BY <1>1, <2>1, ShowStays DEF ShowInv
<1>3. CASE Scold
  <2>1. << >> \in Seq({1})
    BY EmptySeq
  <2> QED
    BY <1>1, <1>3, <2>1 DEF Scold, ShowInv
<1> QED
  BY <1>2, <1>3

LEMMA ShowKeeps == ASSUME ShowInv, [Next]_vars PROVE ShowInv'
<1>1. CASE UNCHANGED stream
  BY <1>1 DEF ShowInv
<1>2. CASE stream' = NoStream
  BY <1>2 DEF ShowInv
<1>3. CASE CallsNext
  <2>1. CASE Interrupt \/ EndTurn \/ Authorizing \/ Save \/ OthersRefresh \/ Expires
    BY <1>1, <2>1 DEF Interrupt, EndTurn, Authorizing, Save, OthersRefresh, Expires, callVars
  <2>2. CASE Answered \/ CallFails \/ Dropped \/ Judged \/ JudgeDropped
    BY <1>2, <2>2 DEF Answered, CallFails, Fails, Dropped, Judged, JudgeDropped, JudgeLeaves
  <2>3. CASE Run
    BY <2>3, AskShows DEF Run
  <2> QED
    BY <1>3, <2>1, <2>2, <2>3, StepShows, PassShows DEF CallsNext
<1>4. CASE Prompt \/ Settle
  BY <1>1, <1>4 DEF Prompt, Settle
<1>5. CASE Judge
  BY <1>5, AskShows DEF Judge
<1>6. CASE Selects \/ CallsServer \/ Meanwhile \/ UNCHANGED vars
  BY <1>1, <1>6 DEF Selects, CallsServer, Meanwhile, vars, callVars
<1> QED
  BY <1>3, <1>4, <1>5, <1>6 DEF Next, Talks, HasResult

\* However often a stream is retried, what was shown is of one attempt: nothing is tried
\* again behind the first delta (the retry loop of Provider::stream).
THEOREM RetriesShowOnce == Spec => []ShownOnce
<1>1. Init => ShowInv
  BY DEF Init, CallsInit, ShowInv
<1>2. ShowInv => ShownOnce
  <2> SUFFICES ASSUME ShowInv, stream # NoStream PROVE Cardinality(Range(stream.shown)) <= 1
    BY DEF ShownOnce
  <2>1. stream.shown \in Seq({stream.attempt})
    BY DEF ShowInv
  <2>2. Range(stream.shown) \subseteq {stream.attempt}
    BY <2>1, ElementOfSeq DEF Range
  <2>3. IsFiniteSet({stream.attempt}) /\ Cardinality({stream.attempt}) = 1
    BY FS_Singleton
  <2> QED
    BY <2>2, <2>3, FS_Subset
<1> QED
  BY <1>1, <1>2, ShowKeeps, PTL DEF Spec
-----------------------------------------------------------------------------
(* The messages of requests.                                               *)

\* What may be put in, and what history holds.
CallSet == [id : Seq(Int), n : Int]
Messages == [role : {"system", "user", "assistant", "tool"}, n : Int, calls : Seq(CallSet), answers : CallSet]
Inputs == {m \in Messages : m.calls = << >> /\ (m.role = "user" \/ (m.role = "tool" /\ m = Result(m.answers)))}
Answers == {m \in Messages : m.role = "assistant"}
Given == Inputs \cup Answers

\* The last call with the id that a result bears is its own.
Ended(before, call) ==
  \E j \in DOMAIN before :
    /\ before[j] = call
    /\ \A k \in DOMAIN before : before[k].id = call.id => k <= j
Sound(messages) ==
  \A i \in DOMAIN messages : IsTool(messages[i]) => Ended(CallsOf(SubSeq(messages, 1, i - 1)), messages[i].answers)

Distinct(cs) == \A j, k \in DOMAIN cs : cs[j].id = cs[k].id => j = k

\* A history is empty, or ends with an answer.
Talk(h) == /\ h \in Seq(Given) /\ Sound(h)
           /\ h # <<>> => Last(h) \in Answers /\ Distinct(Last(h).calls)

\* What is carried behind it answers only calls of that answer.
Silent == {m \in Messages : m.calls = <<>>}
Asked == Given \cup {System}
LastCalls(h) == IF h = <<>> THEN {} ELSE Range(Last(h).calls)
Carried(h) == {m \in Silent \cap Asked : IsTool(m) => m.answers \in LastCalls(h)}
CarriedInputs(h) == Carried(h) \cap Inputs

\* How a request with some messages looks, wherever system messages are.
LaidOut(messages) == Hoisted(Normalized(Remapped(messages)))

HistoryInv ==
  /\ Talk(history)
  /\ history = <<>> => sent = <<>>
  /\ history # <<>> => sent = Append(LaidOut(Front(history)), Last(Remapped(history)))

TurnInv ==
  /\ made \in Nat
  /\ pending \in Seq(CarriedInputs(history))
  /\ calls \in Seq(LastCalls(history))
  /\ calls # <<>> <=> turn \in {"batch", "judge"}

\* The request of a chat, until it is over.
Asking ==
  /\ stream.inputs \in Seq(CarriedInputs(history))
  /\ stream.messages = LaidOut(history \o (<<System>> \o stream.inputs))
  /\ Is("flush") => "answer" \in DOMAIN stream /\ stream.answer \in Answers /\ Distinct(stream.answer.calls)
Recording == "answer" \in DOMAIN stream /\ stream.answer.calls \in Seq(LastCalls(history))

StreamInv ==
  /\ stream # NoStream => {"pc", "who", "inputs", "messages"} \subseteq DOMAIN stream
  /\ Is("flush") \/ Is("done") => OfChat
  /\ OfJudge => turn = "judge"
  /\ OfChat => turn = "call" /\ pending = <<>> /\ (IF Is("done") THEN Recording ELSE Asking)

TalkInv == HistoryInv /\ TurnInv /\ StreamInv

-----------------------------------------------------------------------------
(* Sequences.                                                              *)

\* A set of numbers that is not empty has a first one.
LEMMA FirstOf ==
  ASSUME NEW S, S \subseteq Nat, S # {}
  PROVE  \E k \in S : \A j \in S : k <= j
<1> DEFINE Less == {ss \in Nat \X Nat : ss[1] < ss[2]}
<1>0. IsWellFoundedOn(Less, Nat)
  BY NatLessThanWellFounded DEF OpToRel
<1> HIDE DEF Less
<1>1. PICK x \in S : \A y \in S : ~(<<y, x>> \in Less)
  BY <1>0, WFMin, Zenon
<1>2. ASSUME NEW j \in S PROVE x <= j
  <2>1. x \in Nat /\ j \in Nat
    OBVIOUS
  <2>2. ~(j < x)
    BY <1>1, <2>1 DEF Less
  <2> QED
    BY <2>1, <2>2
<1> QED
  BY <1>1, <1>2

\* And one that is bounded a last one.
LEMMA LastOf ==
  ASSUME NEW n \in Nat, NEW S, S \subseteq 1..n, S # {}
  PROVE  \E k \in S : \A j \in S : j <= k
<1> DEFINE Back == {n - k : k \in S}
<1>1. Back \subseteq Nat /\ Back # {}
  <2>1. \A k \in S : n - k \in Nat
    OBVIOUS
  <2>2. \E k \in S : TRUE
    OBVIOUS
  <2> QED
    BY <2>1, <2>2
<1>2. PICK x \in Back : \A y \in Back : x <= y
  BY <1>1, FirstOf
<1>3. PICK j \in S : x = n - j
  BY <1>2
<1>4. \A k \in S : x <= n - k /\ k \in Nat /\ j \in Nat
  BY <1>2
<1>5. \A k \in S : k <= j
  BY <1>3, <1>4
<1> QED
  BY <1>5

\* Induction over sequences: what holds of the empty one, and is kept by every
\* element that is appended, holds of all.
LEMMA SnocInduction ==
  ASSUME NEW S, NEW Good, <<>> \in Good,
         \A r \in Seq(S) : \A e \in S : r \in Good => Append(r, e) \in Good
  PROVE  Seq(S) \subseteq Good
<1> SUFFICES ASSUME ~(Seq(S) \subseteq Good) PROVE FALSE
  OBVIOUS
<1> DEFINE Lens == {Len(s) : s \in Seq(S) \ Good}
<1>1. Lens \subseteq Nat /\ Lens # {}
  <2>1. \A s \in Seq(S) : Len(s) \in Nat
    BY LenProperties
  <2> QED
    BY <2>1
<1>2. PICK n \in Lens : \A m \in Lens : n <= m
  BY <1>1, FirstOf
<1>3. PICK s \in Seq(S) \ Good : n = Len(s)
  BY <1>2
<1>4. PICK r \in Seq(S), e \in S : s = Append(r, e)
  BY <1>3, SequenceEmptyOrAppend
<1>5. r \notin Good
  BY <1>3, <1>4
<1>6. Len(r) \in Lens
  BY <1>4, <1>5
<1>7. Len(r) \in Nat /\ Len(s) = Len(r) + 1
  BY <1>4, LenProperties, AppendProperties
<1>8. n <= Len(r)
  BY <1>2, <1>6
<1> QED
  BY <1>3, <1>7, <1>8

\* A sequence of one element.
LEMMA Single ==
  ASSUME NEW S, NEW e \in S
  PROVE  <<e>> \in Seq(S) /\ Range(<<e>>) = {e}
<1>1. <<e>> \in Seq(S) /\ Len(<<e>>) = 1 /\ <<e>>[1] = e
  OBVIOUS
<1>2. DOMAIN <<e>> = {1}
  BY <1>1
<1> QED
  BY <1>1, <1>2 DEF Range

\* Sequences of fewer things are sequences of more.
LEMMA SeqSubset == ASSUME NEW S, NEW T, S \subseteq T PROVE Seq(S) \subseteq Seq(T)
OBVIOUS

\* Appending to a concatenation.
LEMMA AppendConcat ==
  ASSUME NEW T, NEW s \in Seq(T), NEW t \in Seq(T), NEW e \in T
  PROVE  s \o Append(t, e) = Append(s \o t, e)
<1>1. Append(t, e) = t \o <<e>> /\ Append(s \o t, e) = (s \o t) \o <<e>> /\ <<e>> \in Seq(T)
  BY AppendIsConcat, ConcatProperties, Single
<1> QED
  BY <1>1, ConcatAssociative

\* The function that flattens: the first k of some sequences, one behind the other.
Flats(seqs, f) ==
  f = [k \in 1..Len(seqs) |-> IF k = 1 THEN seqs[k] ELSE f[k - 1] \o seqs[k]]

LEMMA FlattenIs ==
  ASSUME NEW seqs, Len(seqs) # 0
  PROVE  FlattenSeq(seqs) = (CHOOSE f : Flats(seqs, f))[Len(seqs)]
BY DEF FlattenSeq, Flats

\* It does not change behind the sequences it has seen.
LEMMA FlatsAgree ==
  ASSUME NEW T, NEW s \in Seq(T), NEW e \in T, NEW f, NEW g,
         Flats(s, f), Flats(Append(s, e), g)
  PROVE  \A k \in 1..Len(s) : f[k] = g[k]
<1> DEFINE Bad == {k \in 1..Len(s) : f[k] # g[k]}
<1> SUFFICES ASSUME Bad # {} PROVE FALSE
  OBVIOUS
<1>0. Len(s) \in Nat
  BY LenProperties
<1>1. Bad \subseteq Nat
  BY <1>0
<1>2. PICK k \in Bad : \A j \in Bad : k <= j
  BY <1>1, FirstOf
<1>3. /\ k \in 1..Len(s) /\ k \in 1..(Len(s) + 1) /\ f[k] # g[k]
      /\ Len(Append(s, e)) = Len(s) + 1 /\ Append(s, e)[k] = s[k]
  BY <1>0, <1>2, AppendProperties
<1>4. f[k] = IF k = 1 THEN s[k] ELSE f[k - 1] \o s[k]
  BY <1>3 DEF Flats
<1>5. g[k] = IF k = 1 THEN Append(s, e)[k] ELSE g[k - 1] \o Append(s, e)[k]
  BY <1>3 DEF Flats
<1>6. CASE k = 1
  BY <1>3, <1>4, <1>5, <1>6
<1>7. CASE k # 1
  <2>1. k - 1 \in 1..Len(s) /\ ~(k <= k - 1)
    BY <1>0, <1>3, <1>7
  <2>2. f[k - 1] = g[k - 1]
    BY <1>2, <2>1
  <2> QED
    BY <1>3, <1>4, <1>5, <1>7, <2>2
<1> QED
  BY <1>6, <1>7

\* It can be continued by one sequence.
LEMMA FlatsExtend ==
  ASSUME NEW T, NEW s \in Seq(T), NEW e \in T, NEW f, Flats(s, f)
  PROVE  \E g : Flats(Append(s, e), g)
<1> DEFINE n == Len(s)
<1> DEFINE last == IF n = 0 THEN e ELSE f[n] \o e
<1> DEFINE g == [k \in 1..(n + 1) |-> IF k = n + 1 THEN last ELSE f[k]]
<1>0. n \in Nat
  BY LenProperties
<1>1. Len(Append(s, e)) = n + 1 /\ Append(s, e)[n + 1] = e
  BY AppendProperties
<1>2. ASSUME NEW k \in 1..(n + 1)
      PROVE  g[k] = IF k = 1 THEN Append(s, e)[k] ELSE g[k - 1] \o Append(s, e)[k]
  <2>1. CASE k = n + 1
    <3>1. g[k] = last /\ (k = 1 <=> n = 0)
      BY <1>0, <2>1
    <3>2. k # 1 => k - 1 \in 1..(n + 1) /\ k - 1 # n + 1 /\ k - 1 = n
      BY <1>0, <2>1
    <3>3. k # 1 => g[k - 1] = f[n]
      BY <3>2
    <3> HIDE DEF g
    <3> QED
      BY <1>1, <2>1, <3>1, <3>3
  <2>2. CASE k # n + 1
    <3>1. k \in 1..n /\ g[k] = f[k] /\ Append(s, e)[k] = s[k]
      BY <1>0, <2>2, AppendProperties
    <3>2. f[k] = IF k = 1 THEN s[k] ELSE f[k - 1] \o s[k]
      BY <3>1 DEF Flats
    <3>3. k # 1 => k - 1 \in 1..(n + 1) /\ k - 1 # n + 1
      BY <1>0, <3>1
    <3>4. k # 1 => g[k - 1] = f[k - 1]
      BY <3>3
    <3> HIDE DEF g
    <3> QED
      BY <3>1, <3>2, <3>4
  <2> QED
    BY <2>1, <2>2
<1>3. g = [k \in 1..(n + 1) |-> IF k = 1 THEN Append(s, e)[k] ELSE g[k - 1] \o Append(s, e)[k]]
  <2>1. g = [k \in 1..(n + 1) |-> g[k]]
    OBVIOUS
  <2> HIDE DEF g
  <2> QED
    BY <1>2, <2>1
<1>4. Flats(Append(s, e), g)
  <2> HIDE DEF g
  <2> QED
    BY <1>1, <1>3 DEF Flats
<1> QED
  BY <1>4

\* So there is one for every sequence of sequences.
LEMMA FlatsExist ==
  ASSUME NEW T
  PROVE  \A s \in Seq(T) : \E f : Flats(s, f)
<1> DEFINE Good == {s \in Seq(T) : \E f : Flats(s, f)}
<1>1. <<>> \in Good
  <2> DEFINE f == [k \in 1..0 |-> <<>>]
  <2>1. f = [k \in 1..0 |-> IF k = 1 THEN <<>>[k] ELSE f[k - 1] \o <<>>[k]]
    OBVIOUS
  <2>2. Len(<<>>) = 0 /\ <<>> \in Seq(T)
    BY EmptySeq
  <2>3. Flats(<<>>, f)
    <3> HIDE DEF f
    <3> QED
      BY <2>1, <2>2 DEF Flats
  <2> QED
    BY <2>2, <2>3
<1>2. ASSUME NEW r \in Seq(T), NEW e \in T, r \in Good PROVE Append(r, e) \in Good
  BY <1>2, FlatsExtend, AppendProperties
<1>3. Seq(T) \subseteq Good
  <2> HIDE DEF Good
  <2> QED
    BY <1>1, <1>2, SnocInduction
<1> QED
  BY <1>3

\* Nothing flattened, and one more sequence.
LEMMA FlattenEmpty == FlattenSeq(<<>>) = <<>>
<1>1. Len(<<>>) = 0
  BY EmptySeq
<1> QED
  BY <1>1 DEF FlattenSeq

LEMMA FlattenAppend ==
  ASSUME NEW U, NEW s \in Seq(Seq(U)), NEW e \in Seq(U)
  PROVE  FlattenSeq(Append(s, e)) = FlattenSeq(s) \o e
<1> DEFINE f == CHOOSE h : Flats(s, h)
<1> DEFINE g == CHOOSE h : Flats(Append(s, e), h)
<1> DEFINE n == Len(s)
<1>0. n \in Nat /\ Len(Append(s, e)) = n + 1 /\ Append(s, e)[n + 1] = e /\ Append(s, e) \in Seq(Seq(U))
  BY LenProperties, AppendProperties
<1>1. Flats(s, f) /\ Flats(Append(s, e), g)
  BY <1>0, FlatsExist
<1>2. FlattenSeq(Append(s, e)) = g[n + 1]
  <2>1. n + 1 # 0
    BY <1>0
  <2> QED
    BY <1>0, <2>1, FlattenIs
<1>3. n # 0 => FlattenSeq(s) = f[n]
  BY FlattenIs
<1>4. n = 0 => FlattenSeq(s) = <<>> /\ <<>> \o e = e
  <2>1. n = 0 => s = <<>>
    BY EmptySeq
  <2> QED
    BY <2>1, FlattenEmpty, ConcatEmptySeq
<1> HIDE DEF f, g
<1>5. \A k \in 1..n : f[k] = g[k]
  BY <1>1, FlatsAgree
<1>6. g = [k \in 1..(n + 1) |-> IF k = 1 THEN Append(s, e)[k] ELSE g[k - 1] \o Append(s, e)[k]]
  BY <1>0, <1>1 DEF Flats
<1>7. n + 1 \in 1..(n + 1) /\ (n + 1) - 1 = n /\ (n # 0 => n \in 1..n) /\ (n + 1 = 1 <=> n = 0)
  BY <1>0
<1> HIDE DEF n
<1>8. g[n + 1] = IF n + 1 = 1 THEN Append(s, e)[n + 1] ELSE g[(n + 1) - 1] \o Append(s, e)[n + 1]
  BY <1>6, <1>7, Zenon
<1>9. CASE n = 0
  BY <1>0, <1>2, <1>4, <1>7, <1>8, <1>9
<1>10. CASE n # 0
  BY <1>0, <1>2, <1>3, <1>5, <1>7, <1>8, <1>10
<1> QED
  BY <1>9, <1>10


\* Three sequences.
LEMMA ConcatThrice == \A T : \A a, b, c \in Seq(T) : (a \o b) \o c = a \o (b \o c)
BY ConcatAssociative

\* What a function makes of the elements of a sequence, one behind the other.
FlatMap(F, s) == FlattenSeq([i \in DOMAIN s |-> F[s[i]]])
Maps(S, U) == [S -> Seq(U)]

LEMMA MapsTo == ASSUME NEW S, NEW U, NEW F \in Maps(S, U) PROVE \A e \in S : F[e] \in Seq(U)
BY DEF Maps

\* What appending does to the places of a sequence.
LEMMA Appended ==
  ASSUME NEW S, NEW q \in Seq(S), NEW e \in S
  PROVE  /\ Append(q, e) \in Seq(S) /\ DOMAIN Append(q, e) = 1..(Len(q) + 1)
         /\ DOMAIN q = 1..Len(q) /\ Len(q) \in Nat /\ Len(Append(q, e)) = Len(q) + 1
         /\ \A i \in 1..Len(q) : i \in 1..(Len(q) + 1) /\ i # Len(q) + 1 /\ Append(q, e)[i] = q[i]
         /\ Append(q, e)[Len(q) + 1] = e /\ Len(q) + 1 \in 1..(Len(q) + 1)
         /\ \A i \in 1..(Len(q) + 1) : i # Len(q) + 1 => i \in 1..Len(q)
<1>1. Append(q, e) \in Seq(S) /\ Len(Append(q, e)) = Len(q) + 1 /\ Append(q, e)[Len(q) + 1] = e
  BY AppendProperties
<1>2. \A i \in 1..Len(q) : Append(q, e)[i] = q[i]
  BY AppendProperties
<1>3. Len(q) \in Nat /\ DOMAIN q = 1..Len(q) /\ DOMAIN Append(q, e) = 1..(Len(q) + 1)
  BY <1>1, LenProperties
<1> QED
  BY <1>1, <1>2, <1>3

\* A function on the places of a sequence with one more element, if it agrees on the others.
LEMMA MapAppended ==
  ASSUME NEW S, NEW T, NEW q \in Seq(S), NEW e \in S, NEW f, NEW g,
         DOMAIN f = DOMAIN q, f = [i \in DOMAIN f |-> f[i]],
         DOMAIN g = DOMAIN Append(q, e), g = [i \in DOMAIN g |-> g[i]],
         \A i \in DOMAIN q : f[i] \in T /\ g[i] = f[i],
         g[Len(q) + 1] \in T
  PROVE  f \in Seq(T) /\ Len(f) = Len(q) /\ g = Append(f, g[Len(q) + 1])
<1>0. /\ DOMAIN q = 1..Len(q) /\ Len(q) \in Nat /\ DOMAIN Append(q, e) = 1..(Len(q) + 1)
  BY Appended
<1>1. f \in Seq(T) /\ Len(f) = Len(q)
  BY <1>0
<1>2. g \in Seq(T) /\ Len(g) = Len(q) + 1
  <2>1. \A i \in 1..(Len(q) + 1) : g[i] \in T
    <3>1. \A i \in 1..(Len(q) + 1) : i # Len(q) + 1 => i \in 1..Len(q)
      BY <1>0
    <3> QED
      BY <1>0, <3>1
  <2> QED
    BY <1>0, <2>1
<1>3. Append(f, g[Len(q) + 1]) \in Seq(T) /\ Len(Append(f, g[Len(q) + 1])) = Len(q) + 1
  BY <1>1, AppendProperties
<1>4. ASSUME NEW i \in 1..(Len(q) + 1) PROVE g[i] = Append(f, g[Len(q) + 1])[i]
  <2>1. CASE i \in 1..Len(q)
    BY <1>0, <1>1, <2>1, AppendProperties
  <2>2. CASE i = Len(q) + 1
    BY <1>0, <1>1, <2>2, AppendProperties
  <2> QED
    BY <1>0, <2>1, <2>2
<1> QED
  BY <1>1, <1>2, <1>3, <1>4, SeqEqual

\* No place is left of the empty sequence.
LEMMA NoPlace ==
  ASSUME NEW f, DOMAIN f = DOMAIN <<>>, f = [i \in DOMAIN f |-> f[i]]
  PROVE  f = <<>>
<1>1. DOMAIN <<>> = 1..0
  BY EmptySeq, LenProperties
<1>2. f \in Seq({}) /\ Len(f) = 0
  BY <1>1
<1> QED
  BY <1>2, EmptySeq

LEMMA FlatMapEmpty == \A F : FlatMap(F, <<>>) = <<>>
<1> SUFFICES ASSUME NEW F PROVE FlatMap(F, <<>>) = <<>>
  OBVIOUS
<1> DEFINE f == [i \in DOMAIN <<>> |-> F[<<>>[i]]]
<1>1. f = <<>>
  BY NoPlace
<1> QED
  BY <1>1, FlattenEmpty DEF FlatMap

\* One more element.
LEMMA FlatMapAppend ==
  ASSUME NEW S, NEW U, NEW F \in Maps(S, U), NEW s \in Seq(S), NEW e \in S
  PROVE  FlatMap(F, Append(s, e)) = FlatMap(F, s) \o F[e]
<1> DEFINE f == [i \in DOMAIN s |-> F[s[i]]]
<1> DEFINE g == [i \in DOMAIN Append(s, e) |-> F[Append(s, e)[i]]]
<1>1. /\ DOMAIN Append(s, e) = 1..(Len(s) + 1) /\ DOMAIN s = 1..Len(s)
      /\ \A i \in 1..Len(s) : i \in 1..(Len(s) + 1) /\ Append(s, e)[i] = s[i] /\ s[i] \in S
      /\ Append(s, e)[Len(s) + 1] = e /\ Len(s) + 1 \in 1..(Len(s) + 1)
  BY Appended, ElementOfSeq
<1>2. \A i \in DOMAIN s : f[i] \in Seq(U) /\ g[i] = f[i]
  BY <1>1, MapsTo
<1>3. g[Len(s) + 1] = F[e] /\ F[e] \in Seq(U)
  BY <1>1, MapsTo
<1>4. DOMAIN f = DOMAIN s /\ f = [i \in DOMAIN f |-> f[i]] /\ DOMAIN g = DOMAIN Append(s, e)
      /\ g = [i \in DOMAIN g |-> g[i]]
  OBVIOUS
<1>5. FlatMap(F, s) = FlattenSeq(f) /\ FlatMap(F, Append(s, e)) = FlattenSeq(g)
  BY DEF FlatMap
<1> HIDE DEF f, g
<1>6. f \in Seq(Seq(U)) /\ g = Append(f, F[e])
  BY <1>2, <1>3, <1>4, MapAppended
<1> QED
  BY <1>3, <1>5, <1>6, FlattenAppend

LEMMA FlatMapType ==
  ASSUME NEW S, NEW U, NEW F \in Maps(S, U)
  PROVE  \A s \in Seq(S) : FlatMap(F, s) \in Seq(U)
<1> DEFINE Good == {s \in Seq(S) : FlatMap(F, s) \in Seq(U)}
<1>1. <<>> \in Good
  BY FlatMapEmpty, EmptySeq
<1>2. ASSUME NEW r \in Seq(S), NEW e \in S, r \in Good PROVE Append(r, e) \in Good
  <2>1. PICK y \in Seq(U), z \in Seq(U) : y = FlatMap(F, r) /\ z = F[e]
    BY <1>2, MapsTo
  <2>2. FlatMap(F, Append(r, e)) = y \o z
    BY <2>1, FlatMapAppend
  <2>3. y \o z \in Seq(U) /\ Append(r, e) \in Seq(S)
    BY ConcatProperties, AppendProperties
  <2> QED
    BY <2>2, <2>3
<1>3. Seq(S) \subseteq Good
  <2> HIDE DEF Good
  <2> QED
    BY <1>1, <1>2, SnocInduction
<1> QED
  BY <1>3

\* Two sequences, one behind the other.
LEMMA FlatMapConcat ==
  ASSUME NEW S, NEW U, NEW F \in Maps(S, U)
  PROVE  \A s, t \in Seq(S) : FlatMap(F, s \o t) = FlatMap(F, s) \o FlatMap(F, t)
<1> SUFFICES ASSUME NEW s \in Seq(S)
             PROVE  \A t \in Seq(S) : FlatMap(F, s \o t) = FlatMap(F, s) \o FlatMap(F, t)
  OBVIOUS
<1> DEFINE Good == {t \in Seq(S) : FlatMap(F, s \o t) = FlatMap(F, s) \o FlatMap(F, t)}
<1>0. PICK x \in Seq(U) : x = FlatMap(F, s)
  BY FlatMapType
<1>1. <<>> \in Good
  BY <1>0, FlatMapEmpty, EmptySeq, ConcatEmptySeq
<1>2. ASSUME NEW r \in Seq(S), NEW e \in S, r \in Good PROVE Append(r, e) \in Good
  <2>1. PICK y \in Seq(U), z \in Seq(U) : y = FlatMap(F, r) /\ z = F[e]
    BY FlatMapType, MapsTo
  <2>2. PICK q \in Seq(S) : q = s \o r
    BY ConcatProperties
  <2>3. s \o Append(r, e) = Append(q, e) /\ Append(r, e) \in Seq(S)
    <3>1. s \o Append(r, e) = Append(s \o r, e)
      BY AppendConcat
    <3> QED
      BY <2>2, <3>1, AppendProperties
  <2>4. FlatMap(F, Append(q, e)) = FlatMap(F, q) \o z /\ FlatMap(F, Append(r, e)) = y \o z
    BY <2>1, FlatMapAppend
  <2>5. FlatMap(F, q) = x \o y
    BY <1>0, <1>2, <2>1, <2>2
  <2>6. (x \o y) \o z = x \o (y \o z)
    <3>1. x \in Seq(U) /\ y \in Seq(U) /\ z \in Seq(U)
      BY <1>0, <2>1
    <3> QED
      BY <3>1, ConcatThrice, SMTT(30)
  <2> QED
    BY <1>0, <2>3, <2>4, <2>5, <2>6
<1>3. Seq(S) \subseteq Good
  <2> HIDE DEF Good
  <2> QED
    BY <1>1, <1>2, SnocInduction
<1> QED
  BY <1>3

\* One element alone.
LEMMA FlatMapOne ==
  ASSUME NEW S, NEW U, NEW F \in Maps(S, U), NEW e \in S
  PROVE  FlatMap(F, <<e>>) = F[e]
<1>1. <<>> \in Seq(S) /\ Append(<<>>, e) = <<e>>
  BY EmptySeq
<1>2. FlatMap(F, Append(<<>>, e)) = FlatMap(F, <<>>) \o F[e]
  BY <1>1, FlatMapAppend
<1>3. \A x \in Seq(U) : <<>> \o x = x
  BY ConcatEmptySeq
<1> QED
  BY <1>1, <1>2, <1>3, FlatMapEmpty, MapsTo

\* Nothing made of any element.
LEMMA FlatMapNone ==
  ASSUME NEW S, NEW F, \A e \in S : F[e] = <<>>
  PROVE  \A s \in Seq(S) : FlatMap(F, s) = <<>>
<1> DEFINE Good == {s \in Seq(S) : FlatMap(F, s) = <<>>}
<1> DEFINE None == [e \in S |-> <<>>]
<1>0. None \in Maps(S, {})
  BY EmptySeq DEF Maps
<1>1. \A s \in Seq(S) : FlatMap(F, s) = FlatMap(None, s)
  <2>1. \A s \in Seq(S) : \A i \in DOMAIN s : F[s[i]] = None[s[i]]
    BY ElementOfSeq, LenProperties
  <2> QED
    BY <2>1 DEF FlatMap
<1> HIDE DEF None
<1>2. \A s \in Seq(S) : FlatMap(None, s) \in Seq({})
  BY <1>0, FlatMapType
<1>3. \A x \in Seq({}) : x = <<>>
  BY EmptySeq, LenProperties, ElementOfSeq
<1> QED
  BY <1>1, <1>2, <1>3

\* What is made of an element is part of the whole.
LEMMA FlatMapRange ==
  ASSUME NEW S, NEW U, NEW F \in Maps(S, U)
  PROVE  \A s \in Seq(S) : \A i \in DOMAIN s : Range(F[s[i]]) \subseteq Range(FlatMap(F, s))
<1> DEFINE Good == {s \in Seq(S) : \A i \in DOMAIN s : Range(F[s[i]]) \subseteq Range(FlatMap(F, s))}
<1>1. <<>> \in Good
  BY EmptySeq, LenProperties
<1>2. ASSUME NEW r \in Seq(S), NEW e \in S, r \in Good PROVE Append(r, e) \in Good
  <2>1. PICK y \in Seq(U), z \in Seq(U) : y = FlatMap(F, r) /\ z = F[e]
    BY FlatMapType, MapsTo
  <2>2. FlatMap(F, Append(r, e)) = y \o z
    BY <2>1, FlatMapAppend
  <2>3. Range(y \o z) = Range(y) \union Range(z)
    BY RangeConcatenation
  <2>4. PICK q : q = Append(r, e)
    OBVIOUS
  <2>5. /\ q \in Seq(S) /\ DOMAIN q = 1..(Len(r) + 1) /\ DOMAIN r = 1..Len(r)
        /\ \A i \in 1..Len(r) : q[i] = r[i]
        /\ q[Len(r) + 1] = e
        /\ \A i \in 1..(Len(r) + 1) : i # Len(r) + 1 => i \in 1..Len(r)
    BY <2>4, Appended
  <2>6. \A i \in DOMAIN r : Range(F[r[i]]) \subseteq Range(y)
    BY <1>2, <2>1
  <2>7. \A i \in DOMAIN q : Range(F[q[i]]) \subseteq Range(y \o z)
    BY <2>1, <2>3, <2>5, <2>6
  <2> QED
    BY <2>2, <2>4, <2>5, <2>7
<1>3. Seq(S) \subseteq Good
  <2> HIDE DEF Good
  <2> QED
    BY <1>1, <1>2, SnocInduction
<1> QED
  BY <1>3

\* What one function makes of what another has made, element by element.
LEMMA FlatMapTwice ==
  ASSUME NEW S, NEW U, NEW V, NEW F \in Maps(S, U), NEW G \in Maps(U, V), NEW H,
         \A e \in S : H[e] = FlatMap(G, F[e])
  PROVE  \A s \in Seq(S) : FlatMap(G, FlatMap(F, s)) = FlatMap(H, s)
<1> DEFINE K == [e \in S |-> FlatMap(G, F[e])]
<1>0. K \in Maps(S, V) /\ \A e \in S : K[e] = FlatMap(G, F[e])
  BY FlatMapType, MapsTo DEF Maps
<1>1. \A s \in Seq(S) : FlatMap(H, s) = FlatMap(K, s)
  <2>1. \A s \in Seq(S) : \A i \in DOMAIN s : H[s[i]] = K[s[i]]
    BY ElementOfSeq, LenProperties
  <2> QED
    BY <2>1 DEF FlatMap
<1> HIDE DEF K
<1> DEFINE Good == {s \in Seq(S) : FlatMap(G, FlatMap(F, s)) = FlatMap(K, s)}
<1>2. <<>> \in Good
  BY FlatMapEmpty, EmptySeq
<1>3. ASSUME NEW r \in Seq(S), NEW e \in S, r \in Good PROVE Append(r, e) \in Good
  <2>1. PICK y \in Seq(U), z \in Seq(U) : y = FlatMap(F, r) /\ z = F[e]
    BY FlatMapType, MapsTo
  <2>2. FlatMap(F, Append(r, e)) = y \o z
    BY <2>1, FlatMapAppend
  <2>3. FlatMap(G, y \o z) = FlatMap(G, y) \o FlatMap(G, z)
    <3>1. y \in Seq(U) /\ z \in Seq(U)
      BY <2>1
    <3> QED
      BY <3>1, FlatMapConcat
  <2>4. FlatMap(K, Append(r, e)) = FlatMap(K, r) \o K[e]
    <3>1. K \in Maps(S, V)
      BY <1>0
    <3> QED
      BY <3>1, FlatMapAppend
  <2> QED
    BY <1>0, <1>3, <2>1, <2>2, <2>3, <2>4, AppendProperties
<1>4. Seq(S) \subseteq Good
  <2> HIDE DEF Good
  <2> QED
    BY <1>2, <1>3, SnocInduction
<1> QED
  BY <1>1, <1>4

\* Equally long parts make equally long wholes.
LEMMA FlatMapLen ==
  ASSUME NEW S, NEW U, NEW V, NEW F \in Maps(S, U), NEW G \in Maps(S, V),
         \A e \in S : Len(F[e]) = Len(G[e])
  PROVE  \A s \in Seq(S) : Len(FlatMap(F, s)) = Len(FlatMap(G, s))
<1> DEFINE Good == {s \in Seq(S) : Len(FlatMap(F, s)) = Len(FlatMap(G, s))}
<1>1. <<>> \in Good
  BY FlatMapEmpty, EmptySeq
<1>2. ASSUME NEW r \in Seq(S), NEW e \in S, r \in Good PROVE Append(r, e) \in Good
  <2>1. PICK y \in Seq(U), z \in Seq(U) : y = FlatMap(F, r) /\ z = F[e]
    BY FlatMapType, MapsTo
  <2>2. PICK v \in Seq(V), w \in Seq(V) : v = FlatMap(G, r) /\ w = G[e]
    BY FlatMapType, MapsTo
  <2>3. FlatMap(F, Append(r, e)) = y \o z /\ FlatMap(G, Append(r, e)) = v \o w
    BY <2>1, <2>2, FlatMapAppend
  <2>4. Len(y \o z) = Len(y) + Len(z) /\ Len(v \o w) = Len(v) + Len(w)
    BY ConcatProperties
  <2>5. Len(y) = Len(v) /\ Len(z) = Len(w)
    BY <1>2, <2>1, <2>2
  <2> QED
    BY <2>3, <2>4, <2>5, AppendProperties
<1>3. Seq(S) \subseteq Good
  <2> HIDE DEF Good
  <2> QED
    BY <1>1, <1>2, SnocInduction
<1> QED
  BY <1>3

\* Elements that stay what they are.
LEMMA FlatMapSame ==
  ASSUME NEW S, NEW U, NEW F \in Maps(U, U), S \subseteq U, \A e \in S : F[e] = <<e>>
  PROVE  \A s \in Seq(S) : FlatMap(F, s) = s
<1> DEFINE Good == {s \in Seq(S) : FlatMap(F, s) = s}
<1>1. <<>> \in Good
  BY FlatMapEmpty, EmptySeq
<1>2. ASSUME NEW r \in Seq(S), NEW e \in S, r \in Good PROVE Append(r, e) \in Good
  <2>1. r \in Seq(U) /\ e \in U
    BY SeqSubset
  <2>2. FlatMap(F, Append(r, e)) = FlatMap(F, r) \o F[e]
    BY <2>1, FlatMapAppend
  <2>3. Append(r, e) = r \o <<e>> /\ Append(r, e) \in Seq(S)
    BY AppendIsConcat, AppendProperties
  <2> QED
    BY <1>2, <2>2, <2>3
<1>3. Seq(S) \subseteq Good
  <2> HIDE DEF Good
  <2> QED
    BY <1>1, <1>2, SnocInduction
<1> QED
  BY <1>3

LEMMA ConcatFour ==
  ASSUME NEW S, NEW u \in Seq(S), NEW y \in Seq(S), NEW v \in Seq(S), NEW w \in Seq(S)
  PROVE  (u \o (y \o v)) \o w = (u \o y) \o (v \o w)
<1>1. (u \o y) \o v = u \o (y \o v)
  BY ConcatAssociative
<1>2. PICK x \in Seq(S) : x = u \o y
  BY ConcatProperties
<1>3. x \in Seq(S)
  BY <1>2
<1>4. (x \o v) \o w = x \o (v \o w)
  BY <1>3, ConcatThrice, SMTT(60)
<1> QED
  BY <1>1, <1>2, <1>4

-----------------------------------------------------------------------------
(* Calls.                                                                  *)

CallsIn == [m \in Messages |-> m.calls]

LEMMA CallsAre ==
  /\ CallsIn \in Maps(Messages, CallSet)
  /\ \A m \in Messages : CallsIn[m] = m.calls
  /\ \A s \in Seq(Messages) : CallsOf(s) = FlatMap(CallsIn, s)
<1>1. \A m \in Messages : m.calls \in Seq(CallSet)
  BY DEF Messages
<1>2. CallsIn \in Maps(Messages, CallSet) /\ \A m \in Messages : CallsIn[m] = m.calls
  BY <1>1 DEF CallsIn, Maps
<1>3. ASSUME NEW s \in Seq(Messages) PROVE CallsOf(s) = FlatMap(CallsIn, s)
  <2>1. \A i \in DOMAIN s : s[i].calls = CallsIn[s[i]]
    BY <1>2, ElementOfSeq, LenProperties
  <2> QED
    BY <2>1 DEF CallsOf, FlatMap
<1> QED
  BY <1>2, <1>3

LEMMA CallsType == \A s \in Seq(Messages) : CallsOf(s) \in Seq(CallSet)
BY CallsAre, FlatMapType

LEMMA CallsEmpty == CallsOf(<<>>) = <<>>
<1>1. <<>> \in Seq(Messages)
  BY EmptySeq
<1> QED
  BY <1>1, CallsAre, FlatMapEmpty

LEMMA CallsAppend ==
  ASSUME NEW s \in Seq(Messages), NEW m \in Messages
  PROVE  CallsOf(Append(s, m)) = CallsOf(s) \o m.calls /\ m.calls \in Seq(CallSet)
<1>1. FlatMap(CallsIn, Append(s, m)) = FlatMap(CallsIn, s) \o CallsIn[m] /\ CallsIn[m] \in Seq(CallSet)
  <2>1. CallsIn \in Maps(Messages, CallSet)
    BY CallsAre
  <2> QED
    BY <2>1, FlatMapAppend, MapsTo
<1> QED
  BY <1>1, CallsAre, AppendProperties

LEMMA CallsConcat ==
  ASSUME NEW s \in Seq(Messages), NEW t \in Seq(Messages)
  PROVE  CallsOf(s \o t) = CallsOf(s) \o CallsOf(t)
<1>1. FlatMap(CallsIn, s \o t) = FlatMap(CallsIn, s) \o FlatMap(CallsIn, t)
  <2>0. CallsIn \in Maps(Messages, CallSet)
    BY CallsAre
  <2>1. \A a, b \in Seq(Messages) : FlatMap(CallsIn, a \o b) = FlatMap(CallsIn, a) \o FlatMap(CallsIn, b)
    BY <2>0, FlatMapConcat
  <2> QED
    BY <2>1
<1> QED
  BY <1>1, CallsAre, ConcatProperties

\* Messages that make no calls.
LEMMA CallsNone == \A s \in Seq(Silent) : s \in Seq(Messages) /\ CallsOf(s) = <<>>
<1>1. Seq(Silent) \subseteq Seq(Messages)
  BY SeqSubset DEF Silent
<1>2. \A m \in Silent : CallsIn[m] = <<>>
  BY CallsAre DEF Silent
<1>3. \A s \in Seq(Silent) : FlatMap(CallsIn, s) = <<>>
  BY <1>2, FlatMapNone
<1> QED
  BY <1>1, <1>3, CallsAre

\* A call that is made is made by some message.
LEMMA CallMade ==
  \A s \in Seq(Messages) : \A c \in Range(CallsOf(s)) :
    \E i \in DOMAIN s : \E k \in DOMAIN s[i].calls : s[i].calls[k] = c
<1> DEFINE Made(s, c) == \E i \in DOMAIN s : \E k \in DOMAIN s[i].calls : s[i].calls[k] = c
<1> DEFINE Good == {s \in Seq(Messages) : \A c \in Range(CallsOf(s)) : Made(s, c)}
<1>1. <<>> \in Good
  <2>1. Range(<<>>) = {}
    BY EmptySeq, LenProperties DEF Range
  <2> QED
    BY <2>1, CallsEmpty, EmptySeq
<1>2. ASSUME NEW r \in Seq(Messages), NEW e \in Messages, r \in Good PROVE Append(r, e) \in Good
  <2>1. /\ DOMAIN Append(r, e) = 1..(Len(r) + 1) /\ DOMAIN r = 1..Len(r) /\ Append(r, e) \in Seq(Messages)
        /\ \A i \in 1..Len(r) : i \in 1..(Len(r) + 1) /\ Append(r, e)[i] = r[i]
        /\ Append(r, e)[Len(r) + 1] = e /\ Len(r) + 1 \in 1..(Len(r) + 1)
    BY Appended
  <2>2. CallsOf(r) \in Seq(CallSet) /\ e.calls \in Seq(CallSet)
    BY CallsType DEF Messages
  <2>3. Range(CallsOf(Append(r, e))) = Range(CallsOf(r)) \union Range(e.calls)
    <3>1. \A a, b \in Seq(CallSet) : Range(a \o b) = Range(a) \union Range(b)
      BY RangeConcatenation
    <3> QED
      BY <2>2, <3>1, CallsAppend
  <2>4. ASSUME NEW c \in Range(CallsOf(r)) PROVE Made(Append(r, e), c)
    <3>1. PICK i \in DOMAIN r : \E k \in DOMAIN r[i].calls : r[i].calls[k] = c
      BY <1>2, <2>4
    <3> QED
      BY <2>1, <3>1
  <2>5. ASSUME NEW c \in Range(e.calls) PROVE Made(Append(r, e), c)
    BY <2>1, <2>5 DEF Range
  <2> QED
    BY <2>1, <2>3, <2>4, <2>5
<1>3. Seq(Messages) \subseteq Good
  <2> HIDE DEF Good
  <2> QED
    BY <1>1, <1>2, SnocInduction
<1> QED
  BY <1>3

-----------------------------------------------------------------------------
(* The names of calls.                                                     *)

\* The name a result gets, those of the calls of a message, and what becomes of a message,
\* behind some calls.
NameOf(before, id) ==
  LET at == {j \in DOMAIN before : before[j].id = id}
  IN IF at = {} THEN id ELSE <<(CHOOSE j \in at : \A k \in at : k <= j) - 1, 0>>
Numbers(from, new) == [k \in DOMAIN new |-> Call(<<from + k - 1, 0>>, new[k].n)]
Named(before, m) ==
  [role |-> m.role, n |-> m.n, calls |-> Numbers(Len(before), m.calls),
   answers |-> Call(NameOf(before, m.answers.id), m.answers.n)]

LEMMA RenamedIs ==
  ASSUME NEW s, NEW i
  PROVE  Renamed(s, i) = Named(CallsOf(SubSeq(s, 1, i - 1)), s[i])
<1>1. Renamed(s, i) = Message(s[i].role, s[i].n, Numbers(Len(CallsOf(SubSeq(s, 1, i - 1))), s[i].calls),
                              Call(NameOf(CallsOf(SubSeq(s, 1, i - 1)), s[i].answers.id), s[i].answers.n))
  BY DEF Renamed, Numbers, NameOf, Guid
<1> QED
  BY <1>1 DEF Named, Message

\* Names of calls.
LEMMA NumbersType ==
  ASSUME NEW from \in Nat, NEW new \in Seq(CallSet)
  PROVE  /\ Numbers(from, new) \in Seq(CallSet) /\ Len(Numbers(from, new)) = Len(new)
         /\ DOMAIN Numbers(from, new) = DOMAIN new /\ DOMAIN new = 1..Len(new) /\ Len(new) \in Nat
         /\ \A k \in DOMAIN new : Numbers(from, new)[k] = Call(<<from + k - 1, 0>>, new[k].n)
         /\ Distinct(Numbers(from, new))
<1>1. DOMAIN new = 1..Len(new) /\ Len(new) \in Nat /\ \A k \in 1..Len(new) : new[k] \in CallSet
  BY LenProperties, ElementOfSeq
<1>2. \A k \in 1..Len(new) : from + k - 1 \in Int /\ new[k].n \in Int
  BY <1>1 DEF CallSet
<1>3. \A k \in 1..Len(new) : Call(<<from + k - 1, 0>>, new[k].n) \in CallSet
  <2>1. \A a, b \in Int : <<a, b>> \in Seq(Int)
    OBVIOUS
  <2> QED
    BY <1>2, <2>1 DEF Call, CallSet
<1>4. \A k \in 1..Len(new) : Numbers(from, new)[k] = Call(<<from + k - 1, 0>>, new[k].n)
  BY <1>1 DEF Numbers
<1>5. DOMAIN Numbers(from, new) = 1..Len(new)
  BY <1>1 DEF Numbers
<1>6. Numbers(from, new) \in Seq(CallSet) /\ Len(Numbers(from, new)) = Len(new)
  <2>1. Numbers(from, new) = [k \in 1..Len(new) |-> Numbers(from, new)[k]]
    BY <1>1, <1>5 DEF Numbers
  <2>2. PICK f : f = Numbers(from, new)
    OBVIOUS
  <2>3. f = [k \in 1..Len(new) |-> f[k]] /\ \A k \in 1..Len(new) : f[k] \in CallSet
    BY <1>3, <1>4, <2>1, <2>2
  <2>4. f \in Seq(CallSet) /\ Len(f) = Len(new)
    BY <1>1, <2>3
  <2> QED
    BY <2>2, <2>4
<1>7. Distinct(Numbers(from, new))
  <2>2. PICK f : f = Numbers(from, new)
    OBVIOUS
  <2>1. \A k \in 1..Len(new) : f[k] = Call(<<from + k - 1, 0>>, new[k].n)
    BY <1>4, <2>2
  <2>3. DOMAIN f = 1..Len(new) /\ \A k \in 1..Len(new) : f[k].id = <<from + k - 1, 0>>
    <3>1. \A a, b : Call(a, b).id = a
      BY DEF Call
    <3> QED
      BY <1>5, <2>1, <2>2, <3>1
  <2>4. ASSUME NEW j \in 1..Len(new), NEW k \in 1..Len(new), f[j].id = f[k].id PROVE j = k
    <3>1. <<from + j - 1, 0>> = <<from + k - 1, 0>>
      BY <2>3, <2>4
    <3>2. from + j - 1 = from + k - 1
      BY <3>1
    <3> QED
      BY <1>1, <3>2
  <2>5. Distinct(f)
    BY <2>3, <2>4 DEF Distinct
  <2> QED
    BY <2>2, <2>5
<1> QED
  BY <1>1, <1>4, <1>5, <1>6, <1>7

LEMMA NumbersConcat ==
  ASSUME NEW a \in Seq(CallSet), NEW b \in Seq(CallSet)
  PROVE  Numbers(0, a) \o Numbers(Len(a), b) = Numbers(0, a \o b)
<1>1. /\ a \o b \in Seq(CallSet) /\ Len(a \o b) = Len(a) + Len(b) /\ Len(a) \in Nat /\ Len(b) \in Nat
      /\ \A i \in 1..(Len(a) + Len(b)) : (a \o b)[i] = IF i <= Len(a) THEN a[i] ELSE b[i - Len(a)]
  BY ConcatProperties, LenProperties
<1>2. /\ Numbers(0, a) \in Seq(CallSet) /\ Len(Numbers(0, a)) = Len(a)
      /\ \A k \in 1..Len(a) : Numbers(0, a)[k] = Call(<<0 + k - 1, 0>>, a[k].n)
  BY NumbersType
<1>3. /\ Numbers(Len(a), b) \in Seq(CallSet) /\ Len(Numbers(Len(a), b)) = Len(b)
      /\ \A k \in 1..Len(b) : Numbers(Len(a), b)[k] = Call(<<Len(a) + k - 1, 0>>, b[k].n)
  BY <1>1, NumbersType
<1>4. PICK c \in Seq(CallSet) : c = a \o b
  BY <1>1
<1>5. Len(c) = Len(a) + Len(b) /\ \A i \in 1..(Len(a) + Len(b)) : c[i] = IF i <= Len(a) THEN a[i] ELSE b[i - Len(a)]
  BY <1>1, <1>4
<1>6. /\ Numbers(0, c) \in Seq(CallSet) /\ Len(Numbers(0, c)) = Len(a) + Len(b)
      /\ \A k \in 1..(Len(a) + Len(b)) : Numbers(0, c)[k] = Call(<<0 + k - 1, 0>>, c[k].n)
  <2>1. \A q \in Seq(CallSet) : /\ Numbers(0, q) \in Seq(CallSet) /\ Len(Numbers(0, q)) = Len(q)
                               /\ \A k \in 1..Len(q) : Numbers(0, q)[k] = Call(<<0 + k - 1, 0>>, q[k].n)
    BY NumbersType
  <2> QED
    BY <1>5, <2>1
<1>7. PICK x \in Seq(CallSet), y \in Seq(CallSet) : x = Numbers(0, a) /\ y = Numbers(Len(a), b)
  BY <1>2, <1>3
<1>8. /\ Len(x) = Len(a) /\ Len(y) = Len(b)
      /\ \A k \in 1..Len(a) : x[k] = Call(<<0 + k - 1, 0>>, a[k].n)
      /\ \A k \in 1..Len(b) : y[k] = Call(<<Len(a) + k - 1, 0>>, b[k].n)
  BY <1>2, <1>3, <1>7
<1>9. /\ x \o y \in Seq(CallSet) /\ Len(x \o y) = Len(x) + Len(y)
      /\ \A i \in 1..(Len(x) + Len(y)) : (x \o y)[i] = IF i <= Len(x) THEN x[i] ELSE y[i - Len(x)]
  BY ConcatProperties
<1>10. ASSUME NEW i \in 1..(Len(a) + Len(b)) PROVE (x \o y)[i] = Numbers(0, c)[i]
  <2>0. (x \o y)[i] = IF i <= Len(a) THEN x[i] ELSE y[i - Len(a)]
    BY <1>8, <1>9
  <2>1. CASE i <= Len(a)
    <3>1. i \in 1..Len(a) /\ c[i] = a[i]
      BY <1>1, <1>5, <2>1
    <3> QED
      BY <1>6, <1>8, <2>0, <2>1, <3>1
  <2>2. CASE ~(i <= Len(a))
    <3>1. i - Len(a) \in 1..Len(b) /\ Len(a) + (i - Len(a)) - 1 = 0 + i - 1 /\ c[i] = b[i - Len(a)]
      BY <1>1, <1>5, <2>2
    <3>2. y[i - Len(a)] = Call(<<Len(a) + (i - Len(a)) - 1, 0>>, b[i - Len(a)].n)
      BY <1>8, <3>1
    <3> QED
      BY <1>6, <2>0, <2>2, <3>1, <3>2
  <2> QED
    BY <2>1, <2>2
<1>11. x \o y = Numbers(0, c)
  BY <1>6, <1>8, <1>9, <1>10, SeqEqual
<1> QED
  BY <1>4, <1>7, <1>11

LEMMA NumbersNone == \A from : Numbers(from, <<>>) = <<>>
<1> SUFFICES ASSUME NEW from PROVE Numbers(from, <<>>) = <<>>
  OBVIOUS
<1>1. PICK f : f = Numbers(from, <<>>)
  OBVIOUS
<1>2. DOMAIN f = DOMAIN <<>> /\ f = [i \in DOMAIN f |-> f[i]]
  BY <1>1 DEF Numbers
<1> QED
  BY <1>1, <1>2, NoPlace

\* The name of a result, if its call is the last with its id, is its call's.
LEMMA NameIs ==
  ASSUME NEW before \in Seq(CallSet), NEW j \in DOMAIN before,
         \A k \in DOMAIN before : before[k].id = before[j].id => k <= j
  PROVE  NameOf(before, before[j].id) = <<j - 1, 0>>
<1> DEFINE at == {k \in DOMAIN before : before[k].id = before[j].id}
<1>1. DOMAIN before \subseteq Nat
  BY LenProperties
<1>2. j \in at /\ \A k \in at : k <= j
  OBVIOUS
<1>3. \A i \in at : (\A k \in at : k <= i) => i = j
  BY <1>1, <1>2
<1>4. (CHOOSE i \in at : \A k \in at : k <= i) = j
  BY <1>2, <1>3
<1> QED
  BY <1>2, <1>4 DEF NameOf

LEMMA NamedType ==
  ASSUME NEW before \in Seq(CallSet), NEW m \in Messages
  PROVE  /\ Named(before, m) \in Messages
         /\ Named(before, m).role = m.role /\ Named(before, m).n = m.n
         /\ Named(before, m).calls = Numbers(Len(before), m.calls)
<1>1. Len(before) \in Nat /\ m.calls \in Seq(CallSet) /\ m.answers.id \in Seq(Int) /\ m.answers.n \in Int
  BY LenProperties DEF Messages, CallSet
<1>2. Numbers(Len(before), m.calls) \in Seq(CallSet)
  BY <1>1, NumbersType
<1>3. NameOf(before, m.answers.id) \in Seq(Int)
  <2> DEFINE at == {k \in DOMAIN before : before[k].id = m.answers.id}
  <2>1. CASE at = {}
    BY <1>1, <2>1 DEF NameOf
  <2>2. CASE at # {}
    <3>1. DOMAIN before = 1..Len(before)
      BY LenProperties
    <3>2. PICK j \in at : \A k \in at : k <= j
      BY <1>1, <2>2, <3>1, LastOf
    <3>3. (CHOOSE i \in at : \A k \in at : k <= i) \in at
      BY <3>2
    <3>4. (CHOOSE i \in at : \A k \in at : k <= i) - 1 \in Int
      BY <3>1, <3>3
    <3>5. \A a, b \in Int : <<a, b>> \in Seq(Int)
      OBVIOUS
    <3>6. <<(CHOOSE i \in at : \A k \in at : k <= i) - 1, 0>> \in Seq(Int)
      BY <3>4, <3>5
    <3> QED
      BY <2>2, <3>6 DEF NameOf
  <2> QED
    BY <2>1, <2>2
<1> QED
  BY <1>1, <1>2, <1>3 DEF Named, Messages, Call, CallSet


-----------------------------------------------------------------------------
(* Renaming, message by message.                                           *)

\* What is before a place does not change when something is appended.
LEMMA BeforeAppended ==
  ASSUME NEW S, NEW s \in Seq(S), NEW e \in S
  PROVE  /\ \A i \in 1..(Len(s) + 1) : SubSeq(Append(s, e), 1, i - 1) = SubSeq(s, 1, i - 1)
                                    /\ SubSeq(s, 1, i - 1) \in Seq(S)
         /\ SubSeq(s, 1, (Len(s) + 1) - 1) = s
<1>1. /\ Len(s) \in Nat /\ DOMAIN s = 1..Len(s) /\ \A i \in 1..Len(s) : s[i] \in S /\ Append(s, e)[i] = s[i]
  BY Appended, ElementOfSeq
<1>2. ASSUME NEW i \in 1..(Len(s) + 1)
      PROVE  SubSeq(Append(s, e), 1, i - 1) = SubSeq(s, 1, i - 1) /\ SubSeq(s, 1, i - 1) \in Seq(S)
  <2>1. i - 1 \in Int /\ \A k \in 1..(i - 1) : k \in 1..Len(s)
    BY <1>1
  <2>2. PICK q : q = Append(s, e)
    OBVIOUS
  <2>3. \A k \in 1..(i - 1) : s[k] \in S /\ q[k] \in S /\ q[k] = s[k]
    BY <1>1, <2>1, <2>2
  <2>4. /\ SubSeq(s, 1, i - 1) \in Seq(S) /\ Len(SubSeq(s, 1, i - 1)) = IF 1 <= i - 1 THEN (i - 1) - 1 + 1 ELSE 0
        /\ \A k \in 1..((i - 1) - 1 + 1) : SubSeq(s, 1, i - 1)[k] = s[1 + k - 1]
    BY <2>1, <2>3, SubSeqProperties
  <2>5. /\ SubSeq(q, 1, i - 1) \in Seq(S) /\ Len(SubSeq(q, 1, i - 1)) = IF 1 <= i - 1 THEN (i - 1) - 1 + 1 ELSE 0
        /\ \A k \in 1..((i - 1) - 1 + 1) : SubSeq(q, 1, i - 1)[k] = q[1 + k - 1]
    BY <2>1, <2>3, SubSeqProperties
  <2>6. PICK a, b : a = SubSeq(s, 1, i - 1) /\ b = SubSeq(q, 1, i - 1)
    OBVIOUS
  <2>7. /\ a \in Seq(S) /\ b \in Seq(S) /\ Len(a) = Len(b)
        /\ \A k \in 1..Len(a) : k \in 1..(i - 1) /\ a[k] = s[k] /\ b[k] = q[k]
    BY <1>1, <2>4, <2>5, <2>6
  <2>8. a = b
    BY <2>3, <2>7, SeqEqual
  <2> QED
    BY <2>2, <2>4, <2>6, <2>8
<1>3. SubSeq(s, 1, (Len(s) + 1) - 1) = s
  <2>1. (Len(s) + 1) - 1 = Len(s)
    BY <1>1
  <2> QED
    BY <2>1, SubSeqFull
<1> QED
  BY <1>2, <1>3

LEMMA SystemIs ==
  System \in Messages /\ System.role = "system" /\ System.calls = <<>> /\ System.n = 0 /\ ~IsTool(System) /\ IsSystem(System)
<1>1. <<>> \in Seq(Int) /\ <<>> \in Seq(CallSet)
  BY EmptySeq
<1>2. Call(<<>>, 0) \in CallSet
  BY <1>1 DEF Call, CallSet
<1>3. PICK c \in CallSet : c = NoCall
  BY <1>2 DEF NoCall
<1>4. System = [role |-> "system", n |-> 0, calls |-> <<>>, answers |-> c]
  BY <1>3 DEF System, Message
<1> QED
  BY <1>1, <1>3, <1>4 DEF Messages, IsTool, IsSystem

LEMMA RemapEmpty == Remapped(<<>>) = <<>>
<1>1. PICK f : f = Remapped(<<>>)
  OBVIOUS
<1>2. DOMAIN f = DOMAIN <<>> /\ f = [i \in DOMAIN f |-> f[i]]
  BY <1>1 DEF Remapped
<1> QED
  BY <1>1, <1>2, NoPlace

LEMMA RemapAppend ==
  ASSUME NEW s \in Seq(Messages), NEW m \in Messages
  PROVE  /\ Remapped(Append(s, m)) = Append(Remapped(s), Named(CallsOf(s), m))
         /\ Remapped(s) \in Seq(Messages) /\ Len(Remapped(s)) = Len(s)
<1>1. PICK q, f, g : q = Append(s, m) /\ f = Remapped(s) /\ g = Remapped(q)
  OBVIOUS
<1>2. /\ DOMAIN q = 1..(Len(s) + 1) /\ DOMAIN s = 1..Len(s) /\ Len(s) \in Nat
      /\ \A i \in 1..Len(s) : i \in 1..(Len(s) + 1) /\ q[i] = s[i] /\ s[i] \in Messages
      /\ q[Len(s) + 1] = m /\ Len(s) + 1 \in 1..(Len(s) + 1)
  BY <1>1, Appended, ElementOfSeq
<1>3. /\ \A i \in 1..(Len(s) + 1) : SubSeq(q, 1, i - 1) = SubSeq(s, 1, i - 1) /\ SubSeq(s, 1, i - 1) \in Seq(Messages)
      /\ SubSeq(s, 1, (Len(s) + 1) - 1) = s
  BY <1>1, BeforeAppended
<1>4. \A i \in 1..Len(s) : f[i] = Named(CallsOf(SubSeq(s, 1, i - 1)), s[i])
  BY <1>1, <1>2, RenamedIs DEF Remapped
<1>5. \A i \in 1..(Len(s) + 1) : g[i] = Named(CallsOf(SubSeq(q, 1, i - 1)), q[i])
  BY <1>1, <1>2, RenamedIs DEF Remapped
<1>6. \A b \in Seq(CallSet) : \A x \in Messages : Named(b, x) \in Messages
  BY NamedType
<1>7. \A i \in 1..Len(s) : f[i] \in Messages /\ g[i] = f[i]
  <2>1. \A i \in 1..Len(s) : CallsOf(SubSeq(s, 1, i - 1)) \in Seq(CallSet)
    BY <1>2, <1>3, CallsType
  <2> QED
    BY <1>2, <1>3, <1>4, <1>5, <1>6, <2>1
<1>8. g[Len(s) + 1] = Named(CallsOf(s), m) /\ Named(CallsOf(s), m) \in Messages
  BY <1>2, <1>3, <1>5, <1>6, CallsType
<1>9. /\ DOMAIN f = DOMAIN s /\ f = [i \in DOMAIN f |-> f[i]]
      /\ DOMAIN g = DOMAIN q /\ g = [i \in DOMAIN g |-> g[i]]
  BY <1>1 DEF Remapped
<1>10. f \in Seq(Messages) /\ Len(f) = Len(s) /\ g = Append(f, g[Len(s) + 1])
  <2>1. DOMAIN f = DOMAIN s /\ DOMAIN g = DOMAIN Append(s, m) /\ \A i \in DOMAIN s : f[i] \in Messages /\ g[i] = f[i]
    BY <1>1, <1>2, <1>7, <1>9
  <2>2. g[Len(s) + 1] \in Messages
    BY <1>8
  <2> QED
    BY <1>9, <2>1, <2>2, MapAppended
<1> QED
  BY <1>1, <1>8, <1>10

\* All calls of the messages are numbered through.
LEMMA CallsRemapped ==
  \A s \in Seq(Messages) : CallsOf(Remapped(s)) = Numbers(0, CallsOf(s)) /\ Remapped(s) \in Seq(Messages)
<1> DEFINE Good == {s \in Seq(Messages) : CallsOf(Remapped(s)) = Numbers(0, CallsOf(s)) /\ Remapped(s) \in Seq(Messages)}
<1>1. <<>> \in Good
  BY RemapEmpty, CallsEmpty, NumbersNone, EmptySeq
<1>2. ASSUME NEW r \in Seq(Messages), NEW e \in Messages, r \in Good PROVE Append(r, e) \in Good
  <2>1. PICK b \in Seq(CallSet) : b = CallsOf(r)
    BY CallsType
  <2>2. PICK R \in Seq(Messages) : R = Remapped(r)
    BY RemapAppend
  <2>3. PICK m \in Messages : m = Named(b, e) /\ m.calls = Numbers(Len(b), e.calls)
    BY <2>1, NamedType
  <2>4. Remapped(Append(r, e)) = Append(R, m) /\ Append(R, m) \in Seq(Messages) /\ Append(r, e) \in Seq(Messages)
    BY <2>1, <2>2, <2>3, RemapAppend, AppendProperties
  <2>5. CallsOf(Append(R, m)) = CallsOf(R) \o Numbers(Len(b), e.calls)
    BY <2>2, <2>3, CallsAppend
  <2>6. CallsOf(R) = Numbers(0, b)
    BY <1>2, <2>1, <2>2
  <2>7. CallsOf(Append(r, e)) = b \o e.calls /\ e.calls \in Seq(CallSet)
    BY <2>1, CallsAppend
  <2>8. Numbers(0, b) \o Numbers(Len(b), e.calls) = Numbers(0, b \o e.calls)
    BY <2>1, <2>7, NumbersConcat
  <2> QED
    BY <2>4, <2>5, <2>6, <2>7, <2>8
<1>3. Seq(Messages) \subseteq Good
  <2> HIDE DEF Good
  <2> QED
    BY <1>1, <1>2, SnocInduction
<1> QED
  BY <1>3

\* Messages without calls, behind some that make calls.
Behind(b, t) == [i \in DOMAIN t |-> Named(b, t[i])]

LEMMA BehindAppend ==
  ASSUME NEW b \in Seq(CallSet), NEW t \in Seq(Messages), NEW e \in Messages
  PROVE  /\ Behind(b, t) \in Seq(Messages) /\ Len(Behind(b, t)) = Len(t)
         /\ Behind(b, Append(t, e)) = Append(Behind(b, t), Named(b, e))
         /\ Named(b, e) \in Messages
<1>1. PICK q, f, g : q = Append(t, e) /\ f = Behind(b, t) /\ g = Behind(b, q)
  OBVIOUS
<1>2. /\ DOMAIN q = 1..(Len(t) + 1) /\ DOMAIN t = 1..Len(t)
      /\ \A i \in 1..Len(t) : i \in 1..(Len(t) + 1) /\ q[i] = t[i] /\ t[i] \in Messages
      /\ q[Len(t) + 1] = e /\ Len(t) + 1 \in 1..(Len(t) + 1)
  BY <1>1, Appended, ElementOfSeq
<1>3. \A x \in Messages : Named(b, x) \in Messages
  BY NamedType
<1>4. \A i \in DOMAIN t : f[i] \in Messages /\ g[i] = f[i]
  BY <1>1, <1>2, <1>3 DEF Behind
<1>5. g[Len(t) + 1] = Named(b, e) /\ Named(b, e) \in Messages
  BY <1>1, <1>2, <1>3 DEF Behind
<1>6. DOMAIN f = DOMAIN t /\ f = [i \in DOMAIN f |-> f[i]] /\ DOMAIN g = DOMAIN Append(t, e) /\ g = [i \in DOMAIN g |-> g[i]]
  BY <1>1 DEF Behind
<1>7. f \in Seq(Messages) /\ Len(f) = Len(t) /\ g = Append(f, g[Len(t) + 1])
  BY <1>4, <1>5, <1>6, MapAppended
<1> QED
  BY <1>1, <1>5, <1>7

LEMMA RemapSilent ==
  ASSUME NEW s \in Seq(Messages)
  PROVE  \A t \in Seq(Silent) : /\ Remapped(s \o t) = Remapped(s) \o Behind(CallsOf(s), t)
                                /\ Behind(CallsOf(s), t) \in Seq(Messages)
                                /\ s \o t \in Seq(Messages) /\ CallsOf(s \o t) = CallsOf(s)
<1> DEFINE Good == {t \in Seq(Silent) : Remapped(s \o t) = Remapped(s) \o Behind(CallsOf(s), t)}
<1>0. PICK b \in Seq(CallSet), R \in Seq(Messages) : b = CallsOf(s) /\ R = Remapped(s)
  BY CallsType, CallsRemapped
<1>a. ASSUME NEW t \in Seq(Silent)
      PROVE  t \in Seq(Messages) /\ Behind(b, t) \in Seq(Messages) /\ s \o t \in Seq(Messages) /\ CallsOf(s \o t) = b
  <2>1. t \in Seq(Messages) /\ CallsOf(t) = <<>>
    BY CallsNone
  <2>2. PICK e : e \in Messages
    BY SystemIs
  <2>3. Behind(b, t) \in Seq(Messages)
    BY <1>0, <2>1, <2>2, BehindAppend
  <2>4. s \o t \in Seq(Messages) /\ CallsOf(s \o t) = b \o CallsOf(t)
    BY <1>0, <2>1, CallsConcat, ConcatProperties
  <2>5. b \o <<>> = b
    BY <1>0, ConcatEmptySeq
  <2> QED
    BY <2>1, <2>3, <2>4, <2>5
<1>1. <<>> \in Good
  <2>1. PICK f : f = Behind(b, <<>>)
    OBVIOUS
  <2>2. DOMAIN f = DOMAIN <<>> /\ f = [i \in DOMAIN f |-> f[i]]
    BY <2>1 DEF Behind
  <2>3. Behind(b, <<>>) = <<>>
    BY <2>1, <2>2, NoPlace
  <2>4. s \o <<>> = s /\ R \o <<>> = R /\ <<>> \in Seq(Silent)
    BY <1>0, ConcatEmptySeq, EmptySeq
  <2> QED
    BY <1>0, <2>3, <2>4
<1>2. ASSUME NEW r \in Seq(Silent), NEW e \in Silent, r \in Good PROVE Append(r, e) \in Good
  <2>0. Append(r, e) \in Seq(Silent) /\ e \in Messages
    BY AppendProperties DEF Silent
  <2>1. r \in Seq(Messages) /\ s \o r \in Seq(Messages) /\ CallsOf(s \o r) = b
    BY <1>a
  <2>2. PICK B \in Seq(Messages), m \in Messages : B = Behind(b, r) /\ m = Named(b, e)
    BY <1>0, <1>a, <2>0, NamedType
  <2>3. Behind(b, Append(r, e)) = Append(B, m)
    BY <1>0, <2>0, <2>1, <2>2, BehindAppend
  <2>4. s \o Append(r, e) = Append(s \o r, e)
    BY <2>0, <2>1, AppendConcat
  <2>5. Remapped(Append(s \o r, e)) = Append(Remapped(s \o r), m)
    <3>1. PICK q \in Seq(Messages) : q = s \o r
      BY <2>1
    <3>2. Remapped(Append(q, e)) = Append(Remapped(q), Named(CallsOf(q), e))
      BY <2>0, <3>1, RemapAppend
    <3> QED
      BY <2>1, <2>2, <3>1, <3>2
  <2>6. Remapped(s \o r) = R \o B
    BY <1>0, <1>2, <2>2
  <2>7. R \o Append(B, m) = Append(R \o B, m)
    BY <1>0, <2>2, AppendConcat
  <2> QED
    BY <1>0, <2>0, <2>2, <2>3, <2>4, <2>5, <2>6, <2>7
<1>3. Seq(Silent) \subseteq Good
  <2> HIDE DEF Good
  <2> QED
    BY <1>1, <1>2, SnocInduction
<1> QED
  BY <1>0, <1>3, <1>a

-----------------------------------------------------------------------------
(* Which calls the results of some messages answer.                        *)

Proper == {m \in Messages : m.role # "assistant" => m.calls = <<>>}

LEMMA AskedIs ==
  /\ Asked \subseteq Proper /\ Given \subseteq Asked /\ Proper \subseteq Messages /\ System \in Asked
  /\ Inputs \subseteq Given /\ Answers \subseteq Given
  /\ Inputs \cup {System} \subseteq Silent /\ Silent \subseteq Messages
  /\ \A m \in Asked : IsTool(m) => m.n = m.answers.n
  /\ \A m \in Given : ~IsSystem(m)
  /\ \A m \in Answers : ~IsTool(m)
  /\ \A m \in Inputs : m.role # "assistant"
<1>1. \A m \in Inputs : m \in Messages /\ m.calls = <<>> /\ (IsTool(m) => m = Result(m.answers)) /\ ~IsSystem(m) /\ m.role # "assistant"
  BY DEF Inputs, IsTool, IsSystem
<1>2. \A c : Result(c).n = c.n
  BY DEF Result, Message
<1>3. \A m \in Inputs : IsTool(m) => m.n = m.answers.n
  BY <1>1, <1>2
<1>4. \A m \in Answers : m \in Messages /\ ~IsTool(m) /\ ~IsSystem(m)
  BY DEF Answers, IsTool, IsSystem
<1> QED
  BY <1>1, <1>3, <1>4, SystemIs DEF Asked, Given, Proper, Silent, Answers

\* One more message, as for Sound.
LEMMA SoundAppend ==
  ASSUME NEW s \in Seq(Messages), NEW m \in Messages
  PROVE  Sound(Append(s, m)) <=> Sound(s) /\ (IsTool(m) => Ended(CallsOf(s), m.answers))
<1>1. PICK q : q = Append(s, m)
  OBVIOUS
<1>2. /\ DOMAIN q = 1..(Len(s) + 1) /\ DOMAIN s = 1..Len(s)
      /\ \A i \in 1..Len(s) : i \in 1..(Len(s) + 1) /\ q[i] = s[i]
      /\ q[Len(s) + 1] = m /\ Len(s) + 1 \in 1..(Len(s) + 1)
      /\ \A i \in 1..(Len(s) + 1) : i # Len(s) + 1 => i \in 1..Len(s)
  BY <1>1, Appended
<1>3. /\ \A i \in 1..(Len(s) + 1) : SubSeq(q, 1, i - 1) = SubSeq(s, 1, i - 1)
      /\ SubSeq(s, 1, (Len(s) + 1) - 1) = s
  BY <1>1, BeforeAppended
<1>4. Sound(q) <=> /\ \A i \in 1..Len(s) : IsTool(q[i]) => Ended(CallsOf(SubSeq(q, 1, i - 1)), q[i].answers)
                   /\ IsTool(q[Len(s) + 1]) => Ended(CallsOf(SubSeq(q, 1, (Len(s) + 1) - 1)), q[Len(s) + 1].answers)
  BY <1>2 DEF Sound
<1>5. Sound(s) <=> \A i \in 1..Len(s) : IsTool(s[i]) => Ended(CallsOf(SubSeq(s, 1, i - 1)), s[i].answers)
  BY <1>2 DEF Sound
<1> QED
  BY <1>1, <1>2, <1>3, <1>4, <1>5

\* A result bears the name of a call, and what became of that call.
Bears(m, cs) == \E j \in DOMAIN cs : m.answers.id = <<j - 1, 0>> /\ m.n = cs[j].n

\* The other way round, in the messages themselves.
LEMMA Bearing ==
  ASSUME NEW b \in Seq(CallSet), NEW m \in Asked, IsTool(m), Ended(b, m.answers)
  PROVE  Bears(Named(b, m), b)
<1>1. m \in Messages /\ m.n = m.answers.n
  BY AskedIs
<1>2. PICK j \in DOMAIN b : b[j] = m.answers /\ \A k \in DOMAIN b : b[k].id = m.answers.id => k <= j
  BY DEF Ended
<1>3. NameOf(b, m.answers.id) = <<j - 1, 0>>
  BY <1>2, NameIs
<1>4. Named(b, m).n = m.n /\ Named(b, m).answers.id = NameOf(b, m.answers.id)
  BY DEF Named, Call
<1> QED
  BY <1>1, <1>2, <1>3, <1>4 DEF Bears

\* After renaming, results bear the names of calls, and only answers make calls.
Ordered(R) ==
  /\ R \in Seq(Proper)
  /\ CallsOf(R) \in Seq(CallSet)
  /\ \A j \in DOMAIN CallsOf(R) : CallsOf(R)[j].id = <<j - 1, 0>>
  /\ \A i \in DOMAIN R : IsTool(R[i]) => Bears(R[i], CallsOf(R))

\* What of the calls of messages is seen in a result.
LEMMA BearsMore ==
  ASSUME NEW a \in Seq(CallSet), NEW b \in Seq(CallSet), NEW m, Bears(m, a)
  PROVE  Bears(m, a \o b)
<1>1. PICK j \in DOMAIN a : m.answers.id = <<j - 1, 0>> /\ m.n = a[j].n
  BY DEF Bears
<1>2. /\ a \o b \in Seq(CallSet) /\ Len(a \o b) = Len(a) + Len(b) /\ Len(a) \in Nat /\ Len(b) \in Nat
      /\ \A i \in 1..(Len(a) + Len(b)) : (a \o b)[i] = IF i <= Len(a) THEN a[i] ELSE b[i - Len(a)]
      /\ DOMAIN a = 1..Len(a)
  BY ConcatProperties, LenProperties
<1>3. DOMAIN (a \o b) = 1..(Len(a) + Len(b))
  BY <1>2, LenProperties
<1>4. j \in DOMAIN (a \o b) /\ (a \o b)[j] = a[j]
  BY <1>1, <1>2, <1>3
<1> QED
  BY <1>1, <1>4 DEF Bears

LEMMA NamedProper ==
  ASSUME NEW b \in Seq(CallSet), NEW m \in Proper
  PROVE  Named(b, m) \in Proper
<1>1. m \in Messages
  BY DEF Proper
<1>2. /\ Named(b, m) \in Messages /\ Named(b, m).role = m.role
      /\ Named(b, m).calls = Numbers(Len(b), m.calls)
  BY <1>1, NamedType
<1> QED
  BY <1>2, NumbersNone DEF Proper

\* The results of sound messages bear the names of their calls.
LEMMA RemapBears ==
  \A s \in Seq(Asked) : Sound(s) =>
    /\ Remapped(s) \in Seq(Proper)
    /\ \A i \in DOMAIN Remapped(s) : IsTool(Remapped(s)[i]) => Bears(Remapped(s)[i], CallsOf(s))
<1> DEFINE Fine(s) == /\ Remapped(s) \in Seq(Proper)
                      /\ \A i \in DOMAIN Remapped(s) : IsTool(Remapped(s)[i]) => Bears(Remapped(s)[i], CallsOf(s))
<1> DEFINE Good == {s \in Seq(Asked) : Sound(s) => Fine(s)}
<1>1. <<>> \in Good
  <2>1. <<>> \in Seq(Asked) /\ <<>> \in Seq(Proper) /\ DOMAIN <<>> = {}
    BY EmptySeq, LenProperties
  <2> QED
    BY <2>1, RemapEmpty
<1>2. ASSUME NEW r \in Seq(Asked), NEW e \in Asked, r \in Good PROVE Append(r, e) \in Good
  <2>0. r \in Seq(Messages) /\ e \in Messages /\ e \in Proper /\ Append(r, e) \in Seq(Asked)
    <3>1. Asked \subseteq Messages
      BY AskedIs
    <3> QED
      BY <3>1, SeqSubset, AppendProperties, AskedIs
  <2> SUFFICES ASSUME Sound(Append(r, e)) PROVE Fine(Append(r, e))
    BY <2>0
  <2>1. Sound(r) /\ (IsTool(e) => Ended(CallsOf(r), e.answers))
    BY <2>0, SoundAppend
  <2>2. PICK b \in Seq(CallSet), R \in Seq(Proper) : b = CallsOf(r) /\ R = Remapped(r)
    BY <1>2, <2>0, <2>1, CallsType
  <2>3. \A i \in DOMAIN R : IsTool(R[i]) => Bears(R[i], b)
    BY <1>2, <2>1, <2>2
  <2>4. PICK m \in Proper : m = Named(b, e)
    BY <2>0, <2>2, NamedProper
  <2>5. Remapped(Append(r, e)) = Append(R, m)
    BY <2>0, <2>2, <2>4, RemapAppend
  <2>6. CallsOf(Append(r, e)) = b \o e.calls /\ e.calls \in Seq(CallSet)
    BY <2>0, <2>2, CallsAppend
  <2>7. IsTool(m) => IsTool(e)
    BY <2>4 DEF Named, IsTool
  <2>8. IsTool(m) => Bears(m, b)
    BY <2>1, <2>2, <2>4, <2>7, Bearing
  <2>9. \A x : Bears(x, b) => Bears(x, b \o e.calls)
    BY <2>2, <2>6, BearsMore
  <2>10. PICK Q : Q = Append(R, m)
    OBVIOUS
  <2>11. /\ Q \in Seq(Proper) /\ DOMAIN Q = 1..(Len(R) + 1) /\ DOMAIN R = 1..Len(R)
         /\ \A i \in 1..Len(R) : Q[i] = R[i]
         /\ Q[Len(R) + 1] = m
         /\ \A i \in 1..(Len(R) + 1) : i # Len(R) + 1 => i \in 1..Len(R)
    BY <2>2, <2>4, <2>10, Appended
  <2>12. \A i \in DOMAIN Q : IsTool(Q[i]) => Bears(Q[i], b \o e.calls)
    BY <2>3, <2>8, <2>9, <2>11
  <2> QED
    BY <2>5, <2>6, <2>10, <2>11, <2>12
<1>3. Seq(Asked) \subseteq Good
  <2> HIDE DEF Good
  <2> QED
    BY <1>1, <1>2, SnocInduction
<1> QED
  BY <1>3

LEMMA RemapOrdered ==
  ASSUME NEW s \in Seq(Asked), Sound(s)
  PROVE  Ordered(Remapped(s))
<1>1. s \in Seq(Messages)
  <2>1. Asked \subseteq Messages
    BY AskedIs
  <2> QED
    BY <2>1, SeqSubset
<1>2. PICK R \in Seq(Proper), b \in Seq(CallSet) : R = Remapped(s) /\ b = CallsOf(s)
  BY <1>1, RemapBears, CallsType
<1>3. CallsOf(R) = Numbers(0, b)
  BY <1>1, <1>2, CallsRemapped
<1>4. /\ Numbers(0, b) \in Seq(CallSet) /\ DOMAIN Numbers(0, b) = DOMAIN b
      /\ \A k \in DOMAIN b : Numbers(0, b)[k] = Call(<<0 + k - 1, 0>>, b[k].n)
  BY <1>2, NumbersType
<1>5. PICK c : c = CallsOf(R)
  OBVIOUS
<1>6. /\ c \in Seq(CallSet) /\ DOMAIN c = DOMAIN b
      /\ \A k \in DOMAIN b : c[k] = Call(<<0 + k - 1, 0>>, b[k].n)
  BY <1>3, <1>4, <1>5
<1>7. /\ \A x, y : Call(x, y).id = x /\ Call(x, y).n = y
      /\ \A k \in DOMAIN b : 0 + k - 1 = k - 1
  BY <1>2, LenProperties DEF Call
<1>8. \A k \in DOMAIN b : c[k].id = <<k - 1, 0>> /\ c[k].n = b[k].n
  <2>1. ASSUME NEW k \in DOMAIN b PROVE c[k].id = <<k - 1, 0>> /\ c[k].n = b[k].n
    <3>1. PICK x : x = <<0 + k - 1, 0>>
      OBVIOUS
    <3>2. c[k] = Call(x, b[k].n)
      BY <1>6, <3>1
    <3>3. c[k].id = x /\ c[k].n = b[k].n
      BY <1>7, <3>2
    <3>4. 0 + k - 1 = k - 1
      BY <1>7
    <3> QED
      BY <3>1, <3>3, <3>4
  <2> QED
    BY <2>1
<1>9. \A i \in DOMAIN R : IsTool(R[i]) => Bears(R[i], b)
  BY <1>2, RemapBears
<1>10. \A x : Bears(x, b) => Bears(x, c)
  BY <1>6, <1>8 DEF Bears
<1> QED
  BY <1>2, <1>5, <1>6, <1>8, <1>9, <1>10 DEF Ordered

-----------------------------------------------------------------------------
(* The results of calls.                                                   *)

AnswersTo(m, id) == IsTool(m) /\ m.answers.id = id

\* The result of a call is that of the last message that answers it.
LEMMA ResultForIs ==
  ASSUME NEW R \in Seq(Messages), NEW id
  PROVE  \/ /\ ~\E i \in DOMAIN R : AnswersTo(R[i], id)
            /\ ResultFor(R, id) = Cancelled(id)
         \/ \E i \in DOMAIN R :
              /\ AnswersTo(R[i], id) /\ \A j \in DOMAIN R : AnswersTo(R[j], id) => j <= i
              /\ ResultFor(R, id) = R[i]
<1>1. Answering(R, id) = {i \in DOMAIN R : AnswersTo(R[i], id)}
  BY DEF Answering, AnswersTo
<1>2. CASE Answering(R, id) = {}
  BY <1>1, <1>2 DEF ResultFor
<1>3. CASE Answering(R, id) # {}
  <2>1. Len(R) \in Nat /\ DOMAIN R = 1..Len(R)
    BY LenProperties
  <2>2. PICK i \in Answering(R, id) : \A j \in Answering(R, id) : j <= i
    BY <1>1, <1>3, <2>1, LastOf
  <2>3. PICK k : k = CHOOSE x \in Answering(R, id) : \A j \in Answering(R, id) : j <= x
    OBVIOUS
  <2>4. k \in Answering(R, id) /\ \A j \in Answering(R, id) : j <= k
    BY <2>2, <2>3
  <2>5. ResultFor(R, id) = R[k]
    BY <1>3, <2>3 DEF ResultFor
  <2> QED
    BY <1>1, <2>4, <2>5
<1> QED
  BY <1>2, <1>3

\* One more message.
LEMMA ResultForAppend ==
  ASSUME NEW R \in Seq(Messages), NEW m \in Messages, NEW id
  PROVE  ResultFor(Append(R, m), id) = IF AnswersTo(m, id) THEN m ELSE ResultFor(R, id)
<1>1. PICK q \in Seq(Messages) : q = Append(R, m)
  BY AppendProperties
<1>2. /\ DOMAIN q = 1..(Len(R) + 1) /\ DOMAIN R = 1..Len(R) /\ Len(R) \in Nat
      /\ \A i \in 1..Len(R) : i \in 1..(Len(R) + 1) /\ q[i] = R[i]
      /\ q[Len(R) + 1] = m /\ Len(R) + 1 \in 1..(Len(R) + 1)
      /\ \A i \in 1..(Len(R) + 1) : i # Len(R) + 1 => i \in 1..Len(R)
  BY <1>1, Appended
<1>3. \/ /\ ~\E i \in DOMAIN q : AnswersTo(q[i], id)
         /\ ResultFor(q, id) = Cancelled(id)
      \/ \E i \in DOMAIN q :
           /\ AnswersTo(q[i], id) /\ \A j \in DOMAIN q : AnswersTo(q[j], id) => j <= i
           /\ ResultFor(q, id) = q[i]
  BY <1>1, ResultForIs
<1>4. \/ /\ ~\E i \in DOMAIN R : AnswersTo(R[i], id)
         /\ ResultFor(R, id) = Cancelled(id)
      \/ \E i \in DOMAIN R :
           /\ AnswersTo(R[i], id) /\ \A j \in DOMAIN R : AnswersTo(R[j], id) => j <= i
           /\ ResultFor(R, id) = R[i]
  BY ResultForIs
<1>5. CASE AnswersTo(m, id)
  <2>1. PICK i \in DOMAIN q : /\ AnswersTo(q[i], id) /\ \A j \in DOMAIN q : AnswersTo(q[j], id) => j <= i
                              /\ ResultFor(q, id) = q[i]
    BY <1>2, <1>3, <1>5
  <2>2. Len(R) + 1 <= i
    BY <1>2, <1>5, <2>1
  <2>3. i = Len(R) + 1
    BY <1>2, <2>2
  <2> QED
    BY <1>1, <1>2, <1>5, <2>1, <2>3
<1>6. CASE ~AnswersTo(m, id)
  <2>1. CASE ~\E i \in DOMAIN R : AnswersTo(R[i], id)
    BY <1>1, <1>2, <1>3, <1>4, <1>6, <2>1
  <2>2. CASE \E i \in DOMAIN R : AnswersTo(R[i], id)
    <3>1. PICK i \in DOMAIN R : /\ AnswersTo(R[i], id) /\ \A j \in DOMAIN R : AnswersTo(R[j], id) => j <= i
                                /\ ResultFor(R, id) = R[i]
      BY <1>4, <2>2
    <3>2. AnswersTo(q[i], id) /\ i \in DOMAIN q
      BY <1>2, <3>1
    <3>3. PICK k \in DOMAIN q : /\ AnswersTo(q[k], id) /\ \A j \in DOMAIN q : AnswersTo(q[j], id) => j <= k
                                /\ ResultFor(q, id) = q[k]
      BY <1>3, <3>2
    <3>4. k \in DOMAIN R /\ q[k] = R[k]
      BY <1>2, <1>6, <3>3
    <3>5. k <= i /\ i <= k
      BY <3>1, <3>2, <3>3, <3>4
    <3>6. k = i
      BY <1>2, <3>4, <3>5
    <3> QED
      BY <1>1, <1>6, <3>1, <3>3, <3>4, <3>6
  <2> QED
    BY <2>1, <2>2
<1> QED
  BY <1>5, <1>6

\* What does not answer a call does not change its result, wherever it is.
LEMMA ResultForKept ==
  ASSUME NEW R \in Seq(Messages), NEW id
  PROVE  \A t \in Seq({m \in Messages : ~AnswersTo(m, id)}) : ResultFor(R \o t, id) = ResultFor(R, id)
<1> DEFINE Others_ == {m \in Messages : ~AnswersTo(m, id)}
<1> DEFINE Good == {t \in Seq(Others_) : ResultFor(R \o t, id) = ResultFor(R, id)}
<1>1. <<>> \in Good
  BY EmptySeq, ConcatEmptySeq
<1>2. ASSUME NEW r \in Seq(Others_), NEW e \in Others_, r \in Good PROVE Append(r, e) \in Good
  <2>1. r \in Seq(Messages) /\ e \in Messages /\ ~AnswersTo(e, id) /\ Append(r, e) \in Seq(Others_)
    BY SeqSubset, AppendProperties
  <2>2. PICK q \in Seq(Messages) : q = R \o r
    BY <2>1, ConcatProperties
  <2>3. R \o Append(r, e) = Append(q, e)
    BY <2>1, <2>2, AppendConcat
  <2>4. ResultFor(Append(q, e), id) = ResultFor(q, id)
    BY <2>1, <2>2, ResultForAppend
  <2> QED
    BY <1>2, <2>1, <2>2, <2>3, <2>4
<1>3. Seq(Others_) \subseteq Good
  <2> HIDE DEF Good, Others_
  <2> QED
    BY <1>1, <1>2, SnocInduction
<1> QED
  BY <1>3

LEMMA ResultForSkips ==
  ASSUME NEW R \in Seq(Messages), NEW x \in Messages, NEW id, ~AnswersTo(x, id)
  PROVE  \A t \in Seq(Messages) : ResultFor(Append(R, x) \o t, id) = ResultFor(R \o t, id)
<1> DEFINE Good == {t \in Seq(Messages) : ResultFor(Append(R, x) \o t, id) = ResultFor(R \o t, id)}
<1>0. PICK X \in Seq(Messages) : X = Append(R, x)
  BY AppendProperties
<1>1. <<>> \in Good
  <2>1. ResultFor(X, id) = ResultFor(R, id)
    BY <1>0, ResultForAppend
  <2>2. X \o <<>> = X /\ R \o <<>> = R /\ <<>> \in Seq(Messages)
    BY <1>0, ConcatEmptySeq, EmptySeq
  <2> QED
    BY <1>0, <2>1, <2>2
<1>2. ASSUME NEW r \in Seq(Messages), NEW e \in Messages, r \in Good PROVE Append(r, e) \in Good
  <2>1. PICK q \in Seq(Messages), p \in Seq(Messages) : q = R \o r /\ p = X \o r
    BY <1>0, ConcatProperties
  <2>2. R \o Append(r, e) = Append(q, e) /\ X \o Append(r, e) = Append(p, e)
    BY <1>0, <2>1, AppendConcat
  <2>3. ResultFor(Append(q, e), id) = IF AnswersTo(e, id) THEN e ELSE ResultFor(q, id)
    BY <2>1, ResultForAppend
  <2>4. ResultFor(Append(p, e), id) = IF AnswersTo(e, id) THEN e ELSE ResultFor(p, id)
    BY <2>1, ResultForAppend
  <2> QED
    BY <1>0, <1>2, <2>1, <2>2, <2>3, <2>4, AppendProperties
<1>3. Seq(Messages) \subseteq Good
  <2> HIDE DEF Good
  <2> QED
    BY <1>1, <1>2, SnocInduction
<1> QED
  BY <1>3

\* A result is of a tool, for its call, and makes no calls.
LEMMA ResultForType ==
  ASSUME NEW R \in Seq(Proper), NEW id \in Seq(Int)
  PROVE  /\ ResultFor(R, id) \in Silent /\ IsTool(ResultFor(R, id)) /\ ResultFor(R, id).answers.id = id
         /\ ResultFor(R, id) \in Range(R) \/ ResultFor(R, id).n = Synthetic
         /\ (\E i \in DOMAIN R : AnswersTo(R[i], id)) => ResultFor(R, id) \in Range(R)
<1>1. R \in Seq(Messages)
  BY SeqSubset DEF Proper
<1>2. ASSUME ResultFor(R, id) = Cancelled(id)
      PROVE  /\ ResultFor(R, id) \in Silent /\ IsTool(ResultFor(R, id)) /\ ResultFor(R, id).answers.id = id
             /\ ResultFor(R, id).n = Synthetic
  <2>1. PICK c : c = Call(id, Synthetic)
    OBVIOUS
  <2>2. c \in CallSet /\ c.id = id /\ c.n = Synthetic /\ Synthetic \in Int
    BY <2>1 DEF Call, CallSet, Synthetic
  <2>3. Cancelled(id) = [role |-> "tool", n |-> Synthetic, calls |-> <<>>, answers |-> c]
    BY <2>1, <2>2 DEF Cancelled, Result, Message
  <2>4. <<>> \in Seq(CallSet)
    BY EmptySeq
  <2> QED
    BY <1>2, <2>2, <2>3, <2>4 DEF Silent, Messages, IsTool
<1>3. ASSUME NEW i \in DOMAIN R, AnswersTo(R[i], id), ResultFor(R, id) = R[i]
      PROVE  /\ ResultFor(R, id) \in Silent /\ IsTool(ResultFor(R, id)) /\ ResultFor(R, id).answers.id = id
             /\ ResultFor(R, id) \in Range(R)
  <2>1. R[i] \in Proper
    BY ElementOfSeq, LenProperties
  <2>2. IsTool(R[i]) => R[i].role # "assistant"
    BY DEF IsTool
  <2> QED
    BY <1>3, <2>1, <2>2 DEF Proper, Silent, AnswersTo, Range
<1>4. \/ /\ ~\E i \in DOMAIN R : AnswersTo(R[i], id)
         /\ ResultFor(R, id) = Cancelled(id)
      \/ \E i \in DOMAIN R : AnswersTo(R[i], id) /\ ResultFor(R, id) = R[i]
  BY <1>1, ResultForIs
<1> QED
  BY <1>2, <1>3, <1>4

-----------------------------------------------------------------------------
(* Messages with the results of their calls.                               *)

ResultsIn(R, m) == [k \in DOMAIN m.calls |-> ResultFor(R, m.calls[k].id)]
Blocks(R) == [m \in Proper |-> IF IsTool(m) \/ IsSystem(m) THEN <<>> ELSE <<m>> \o ResultsIn(R, m)]

ToolResults == {m \in Silent : IsTool(m)}

LEMMA ResultsType ==
  ASSUME NEW R \in Seq(Proper), NEW m \in Proper
  PROVE  /\ ResultsIn(R, m) \in Seq(ToolResults) /\ ResultsIn(R, m) \in Seq(Messages)
         /\ Len(ResultsIn(R, m)) = Len(m.calls)
         /\ DOMAIN m.calls = 1..Len(m.calls) /\ Len(m.calls) \in Nat
         /\ \A k \in DOMAIN m.calls : m.calls[k] \in CallSet /\ ResultsIn(R, m)[k] = ResultFor(R, m.calls[k].id)
<1>1. m.calls \in Seq(CallSet)
  BY DEF Proper, Messages
<1>2. /\ DOMAIN m.calls = 1..Len(m.calls) /\ Len(m.calls) \in Nat
      /\ \A k \in DOMAIN m.calls : m.calls[k] \in CallSet /\ m.calls[k].id \in Seq(Int)
  <2>1. DOMAIN m.calls = 1..Len(m.calls) /\ Len(m.calls) \in Nat
    BY <1>1, LenProperties
  <2>2. \A k \in 1..Len(m.calls) : m.calls[k] \in CallSet
    BY <1>1, ElementOfSeq
  <2> QED
    BY <2>1, <2>2 DEF CallSet
<1>3. PICK f : f = ResultsIn(R, m)
  OBVIOUS
<1>4. DOMAIN f = DOMAIN m.calls /\ f = [k \in DOMAIN f |-> f[k]]
      /\ \A k \in DOMAIN m.calls : f[k] = ResultFor(R, m.calls[k].id)
  BY <1>3 DEF ResultsIn
<1>5. \A k \in DOMAIN m.calls : f[k] \in ToolResults
  BY <1>2, <1>4, ResultForType DEF ToolResults
<1>6. f \in Seq(ToolResults) /\ Len(f) = Len(m.calls)
  BY <1>2, <1>4, <1>5
<1>7. Seq(ToolResults) \subseteq Seq(Messages)
  BY SeqSubset DEF ToolResults, Silent
<1> QED
  BY <1>2, <1>3, <1>4, <1>6, <1>7

LEMMA BlocksType ==
  ASSUME NEW R \in Seq(Proper)
  PROVE  /\ Blocks(R) \in Maps(Proper, Messages)
         /\ \A m \in Proper : IsTool(m) \/ IsSystem(m) => Blocks(R)[m] = <<>>
         /\ \A m \in Proper : ~IsTool(m) /\ ~IsSystem(m) => Blocks(R)[m] = <<m>> \o ResultsIn(R, m)
<1>1. ASSUME NEW m \in Proper PROVE <<m>> \o ResultsIn(R, m) \in Seq(Messages) /\ <<>> \in Seq(Messages)
  <2>1. <<m>> \in Seq(Messages) /\ ResultsIn(R, m) \in Seq(Messages)
    BY Single, ResultsType DEF Proper
  <2> QED
    BY <2>1, ConcatProperties, EmptySeq
<1> QED
  BY <1>1 DEF Blocks, Maps

\* hoist_system, message by message.
Hoist == [m \in Messages |-> IF IsSystem(m) THEN <<>> ELSE <<m>>]

LEMMA HoistIs ==
  /\ Hoist \in Maps(Messages, Messages)
  /\ \A m \in Messages : Hoist[m] = IF IsSystem(m) THEN <<>> ELSE <<m>>
  /\ \A s \in Seq(Messages) : Hoisted(s) = FlatMap(Hoist, s)
<1>1. \A m \in Messages : <<m>> \in Seq(Messages) /\ <<>> \in Seq(Messages)
  BY Single, EmptySeq
<1>2. /\ Hoist \in Maps(Messages, Messages)
      /\ \A m \in Messages : Hoist[m] = IF IsSystem(m) THEN <<>> ELSE <<m>>
  BY <1>1 DEF Hoist, Maps
<1>3. ASSUME NEW s \in Seq(Messages) PROVE Hoisted(s) = FlatMap(Hoist, s)
  <2>1. \A i \in DOMAIN s : Hoist[s[i]] = IF IsSystem(s[i]) THEN <<>> ELSE <<s[i]>>
    BY <1>2, ElementOfSeq, LenProperties
  <2> QED
    BY <2>1 DEF Hoisted, FlatMap
<1> QED
  BY <1>2, <1>3

\* Of the message with its results, no system message is left.
LEMMA HoistBlock ==
  ASSUME NEW R \in Seq(Proper), NEW m \in Proper
  PROVE  WithResults(R, m) \in Seq(Messages) /\ Blocks(R)[m] = FlatMap(Hoist, WithResults(R, m))
<1>0. m \in Messages /\ (m.role # "assistant" => m.calls = <<>>)
  BY DEF Proper
<1>1. CASE IsTool(m)
  <2>1. WithResults(R, m) = <<>>
    BY <1>1 DEF WithResults
  <2>2. Blocks(R)[m] = <<>>
    BY <1>1, BlocksType
  <2> QED
    BY <2>1, <2>2, FlatMapEmpty, EmptySeq
<1>2. CASE ~IsTool(m)
  <2>1. WithResults(R, m) = <<m>> \o ResultsIn(R, m)
    BY <1>2 DEF WithResults, ResultsIn
  <2>2. ResultsIn(R, m) \in Seq(ToolResults) /\ ResultsIn(R, m) \in Seq(Messages) /\ <<m>> \in Seq(Messages)
    BY <1>0, ResultsType, Single
  <2>3. PICK x \in Seq(Messages) : x = ResultsIn(R, m)
    BY <2>2
  <2>4. <<m>> \o x \in Seq(Messages)
    BY <2>2, <2>3, ConcatProperties
  <2>5. FlatMap(Hoist, <<m>> \o x) = Hoist[m] \o FlatMap(Hoist, x)
    <3>1. PICK y : y = <<m>>
      OBVIOUS
    <3>2. Hoist \in Maps(Messages, Messages) /\ y \in Seq(Messages) /\ x \in Seq(Messages)
      BY <2>2, <2>3, <3>1, HoistIs
    <3>3. FlatMap(Hoist, y \o x) = FlatMap(Hoist, y) \o FlatMap(Hoist, x)
      BY <3>2, FlatMapConcat
    <3>4. FlatMap(Hoist, y) = Hoist[m]
      BY <1>0, <3>1, <3>2, FlatMapOne
    <3> QED
      BY <3>1, <3>3, <3>4
  <2>7. FlatMap(Hoist, x) = x
    <3>1. ToolResults \subseteq Messages /\ \A e \in ToolResults : ~IsSystem(e)
      BY DEF ToolResults, Silent, IsTool, IsSystem
    <3>2. \A e \in ToolResults : Hoist[e] = <<e>>
      BY <3>1, HoistIs
    <3>3. Hoist \in Maps(Messages, Messages)
      BY HoistIs
    <3>4. \A s \in Seq(ToolResults) : FlatMap(Hoist, s) = s
      BY <3>1, <3>2, <3>3, FlatMapSame
    <3> QED
      BY <2>2, <2>3, <3>4
  <2>8. CASE IsSystem(m)
    <3>1. m.calls = <<>>
      BY <1>0, <2>8 DEF IsSystem
    <3>2. x = <<>>
      <4>1. Len(x) = Len(m.calls) /\ Len(<<>>) = 0
        BY <2>3, ResultsType, EmptySeq
      <4> QED
        BY <2>3, <3>1, <4>1, EmptySeq
    <3>3. Hoist[m] = <<>> /\ Blocks(R)[m] = <<>>
      BY <1>0, <2>8, HoistIs, BlocksType
    <3>4. <<>> \o <<>> = <<>>
      BY EmptySeq, ConcatEmptySeq
    <3> QED
      BY <2>1, <2>3, <2>4, <2>5, <2>7, <3>2, <3>3, <3>4
  <2>9. CASE ~IsSystem(m)
    <3>1. Hoist[m] = <<m>> /\ Blocks(R)[m] = <<m>> \o x
      BY <1>0, <1>2, <2>3, <2>9, HoistIs, BlocksType
    <3> QED
      BY <2>1, <2>3, <2>4, <2>5, <2>7, <3>1
  <2> QED
    BY <2>8, <2>9
<1> QED
  BY <1>1, <1>2

\* How the provider lays the messages out.
LEMMA LaidOutIs ==
  ASSUME NEW R \in Seq(Proper)
  PROVE  Hoisted(Normalized(R)) = FlatMap(Blocks(R), R) /\ FlatMap(Blocks(R), R) \in Seq(Messages)
<1> DEFINE W == [m \in Proper |-> WithResults(R, m)]
<1>1. W \in Maps(Proper, Messages) /\ \A m \in Proper : W[m] = WithResults(R, m)
  BY HoistBlock DEF Maps
<1>2. Normalized(R) = FlatMap(W, R)
  <2>1. \A i \in DOMAIN R : W[R[i]] = WithResults(R, R[i])
    BY <1>1, ElementOfSeq, LenProperties
  <2> HIDE DEF W
  <2> QED
    BY <2>1 DEF Normalized, FlatMap
<1> HIDE DEF W
<1>3. FlatMap(W, R) \in Seq(Messages)
  BY <1>1, FlatMapType
<1>4. Hoisted(Normalized(R)) = FlatMap(Hoist, FlatMap(W, R))
  BY <1>2, <1>3, HoistIs
<1>5. \A m \in Proper : Blocks(R)[m] = FlatMap(Hoist, W[m])
  BY <1>1, HoistBlock
<1>6. Hoist \in Maps(Messages, Messages)
  BY HoistIs
<1>7. \A s \in Seq(Proper) : FlatMap(Hoist, FlatMap(W, s)) = FlatMap(Blocks(R), s)
  BY <1>1, <1>5, <1>6, FlatMapTwice
<1>8. Blocks(R) \in Maps(Proper, Messages)
  BY BlocksType
<1>9. \A s \in Seq(Proper) : FlatMap(Blocks(R), s) \in Seq(Messages)
  BY <1>8, FlatMapType
<1> QED
  BY <1>4, <1>7, <1>9

\* The calls stay what they are.
LEMMA BlocksCalls ==
  ASSUME NEW R \in Seq(Proper)
  PROVE  CallsOf(FlatMap(Blocks(R), R)) = CallsOf(R)
<1>0. /\ CallsIn \in Maps(Messages, CallSet) /\ Blocks(R) \in Maps(Proper, Messages)
      /\ R \in Seq(Messages) /\ FlatMap(Blocks(R), R) \in Seq(Messages)
  <2>1. Proper \subseteq Messages
    BY DEF Proper
  <2> QED
    BY <2>1, CallsAre, BlocksType, LaidOutIs, SeqSubset
<1>1. ASSUME NEW m \in Proper PROVE CallsIn[m] = FlatMap(CallsIn, Blocks(R)[m])
  <2>0. m \in Messages /\ (m.role # "assistant" => m.calls = <<>>) /\ CallsIn[m] = m.calls /\ m.calls \in Seq(CallSet)
    BY CallsAre DEF Proper, Messages
  <2>1. CASE IsTool(m) \/ IsSystem(m)
    <3>1. m.calls = <<>> /\ Blocks(R)[m] = <<>>
      BY <2>0, <2>1, BlocksType DEF IsTool, IsSystem
    <3> QED
      BY <2>0, <3>1, FlatMapEmpty
  <2>2. CASE ~IsTool(m) /\ ~IsSystem(m)
    <3>1. PICK x \in Seq(Messages) : x = ResultsIn(R, m) /\ x \in Seq(ToolResults)
      BY ResultsType
    <3>2. Blocks(R)[m] = <<m>> \o x /\ <<m>> \in Seq(Messages)
      BY <2>0, <2>2, <3>1, BlocksType, Single
    <3>3. FlatMap(CallsIn, <<m>> \o x) = CallsIn[m] \o FlatMap(CallsIn, x)
      <4>1. PICK y : y = <<m>>
        OBVIOUS
      <4>2. CallsIn \in Maps(Messages, CallSet) /\ y \in Seq(Messages) /\ x \in Seq(Messages)
        BY <1>0, <3>1, <3>2, <4>1
      <4>3. FlatMap(CallsIn, y \o x) = FlatMap(CallsIn, y) \o FlatMap(CallsIn, x)
        BY <4>2, FlatMapConcat
      <4>4. FlatMap(CallsIn, y) = CallsIn[m]
        BY <2>0, <4>1, <4>2, FlatMapOne
      <4> QED
        BY <4>1, <4>3, <4>4
    <3>5. FlatMap(CallsIn, x) = <<>>
      <4>1. \A e \in ToolResults : CallsIn[e] = <<>>
        BY CallsAre DEF ToolResults, Silent
      <4>2. \A s \in Seq(ToolResults) : FlatMap(CallsIn, s) = <<>>
        BY <4>1, FlatMapNone
      <4> QED
        BY <3>1, <4>2
    <3>6. m.calls \o <<>> = m.calls
      BY <2>0, ConcatEmptySeq
    <3> QED
      BY <2>0, <3>2, <3>3, <3>5, <3>6
  <2> QED
    BY <2>1, <2>2
<1>2. \A s \in Seq(Proper) : FlatMap(CallsIn, FlatMap(Blocks(R), s)) = FlatMap(CallsIn, s)
  BY <1>0, <1>1, FlatMapTwice
<1> QED
  BY <1>0, <1>2, CallsAre

\* Every call is followed by its results, in order.
InOrder(R, L) ==
  \A i \in DOMAIN L : L[i].role = "assistant" =>
    \A k \in DOMAIN L[i].calls : i + k \in DOMAIN L /\ L[i + k] = ResultFor(R, L[i].calls[k].id)

LEMMA InOrderConcat ==
  ASSUME NEW R, NEW a \in Seq(Messages), NEW b \in Seq(Messages), InOrder(R, a), InOrder(R, b)
  PROVE  InOrder(R, a \o b)
<1>1. PICK c : c = a \o b
  OBVIOUS
<1>2. /\ c \in Seq(Messages) /\ Len(c) = Len(a) + Len(b) /\ Len(a) \in Nat /\ Len(b) \in Nat
      /\ \A i \in 1..(Len(a) + Len(b)) : c[i] = IF i <= Len(a) THEN a[i] ELSE b[i - Len(a)]
      /\ DOMAIN a = 1..Len(a) /\ DOMAIN b = 1..Len(b) /\ DOMAIN c = 1..(Len(a) + Len(b))
  <2>1. /\ c \in Seq(Messages) /\ Len(c) = Len(a) + Len(b)
        /\ \A i \in 1..(Len(a) + Len(b)) : c[i] = IF i <= Len(a) THEN a[i] ELSE b[i - Len(a)]
    BY <1>1, ConcatProperties
  <2>2. DOMAIN a = 1..Len(a) /\ DOMAIN b = 1..Len(b) /\ DOMAIN c = 1..Len(c) /\ Len(a) \in Nat /\ Len(b) \in Nat
    BY <2>1, LenProperties
  <2> QED
    BY <2>1, <2>2
<1>3. \A m \in Messages : \A k \in DOMAIN m.calls : k \in Nat /\ k >= 1
  <2>1. \A m \in Messages : m.calls \in Seq(CallSet)
    BY DEF Messages
  <2>2. \A q \in Seq(CallSet) : \A k \in DOMAIN q : k \in Nat /\ k >= 1
    BY LenProperties
  <2> QED
    BY <2>1, <2>2
<1>4. ASSUME NEW i \in DOMAIN c, c[i].role = "assistant", NEW k \in DOMAIN c[i].calls
      PROVE  i + k \in DOMAIN c /\ c[i + k] = ResultFor(R, c[i].calls[k].id)
  <2>0. i \in Nat /\ i >= 1 /\ c[i] \in Messages /\ k \in Nat /\ k >= 1
    <3>1. c[i] \in Messages /\ i \in 1..(Len(a) + Len(b))
      BY <1>2, ElementOfSeq
    <3> QED
      BY <1>2, <1>3, <3>1
  <2>1. CASE i <= Len(a)
    <3>1. i \in DOMAIN a /\ c[i] = a[i]
      BY <1>2, <2>0, <2>1
    <3>2. i + k \in DOMAIN a /\ a[i + k] = ResultFor(R, a[i].calls[k].id)
      BY <1>4, <3>1 DEF InOrder
    <3>3. i + k \in DOMAIN c /\ c[i + k] = a[i + k]
      BY <1>2, <2>0, <3>2
    <3> QED
      BY <3>1, <3>2, <3>3
  <2>2. CASE ~(i <= Len(a))
    <3>1. i - Len(a) \in DOMAIN b /\ c[i] = b[i - Len(a)]
      BY <1>2, <2>0, <2>2
    <3>2. PICK j \in DOMAIN b : j = i - Len(a)
      BY <3>1
    <3>3. j + k \in DOMAIN b /\ b[j + k] = ResultFor(R, b[j].calls[k].id)
      BY <1>4, <3>1, <3>2 DEF InOrder
    <3>4. i + k \in DOMAIN c /\ ~(i + k <= Len(a)) /\ (i + k) - Len(a) = j + k
      BY <1>2, <2>0, <2>2, <3>2, <3>3
    <3>5. c[i + k] = b[j + k]
      BY <1>2, <3>4
    <3> QED
      BY <3>1, <3>2, <3>3, <3>4, <3>5
  <2> QED
    BY <2>1, <2>2
<1> QED
  BY <1>1, <1>4 DEF InOrder

LEMMA InOrderBlock ==
  ASSUME NEW R \in Seq(Proper), NEW m \in Proper
  PROVE  InOrder(R, Blocks(R)[m])
<1>1. CASE IsTool(m) \/ IsSystem(m)
  <2>1. Blocks(R)[m] = <<>> /\ DOMAIN <<>> = {}
    BY <1>1, BlocksType, EmptySeq, LenProperties
  <2> QED
    BY <2>1 DEF InOrder
<1>2. CASE ~IsTool(m) /\ ~IsSystem(m)
  <2>1. PICK x : x = ResultsIn(R, m)
    OBVIOUS
  <2>2. /\ x \in Seq(ToolResults) /\ x \in Seq(Messages) /\ Len(x) = Len(m.calls)
        /\ DOMAIN m.calls = 1..Len(x) /\ Len(x) \in Nat
        /\ \A k \in 1..Len(x) : x[k] = ResultFor(R, m.calls[k].id)
    BY <2>1, ResultsType
  <2>3. PICK L : L = <<m>> \o x
    OBVIOUS
  <2>4. Blocks(R)[m] = L
    BY <1>2, <2>1, <2>3, BlocksType
  <2>5. /\ DOMAIN L = 1..(1 + Len(x)) /\ L[1] = m
        /\ \A i \in 1..(1 + Len(x)) : i # 1 => i - 1 \in 1..Len(x) /\ L[i] = x[i - 1]
    <3>1. PICK y \in Seq(Messages) : y = <<m>> /\ Len(y) = 1 /\ y[1] = m
      <4>1. <<m>> \in Seq(Messages)
        BY Single DEF Proper
      <4>2. Len(<<m>>) = 1 /\ <<m>>[1] = m
        OBVIOUS
      <4> QED
        BY <4>1, <4>2
    <3>2. /\ Len(y \o x) = 1 + Len(x) /\ y \o x \in Seq(Messages)
          /\ \A i \in 1..(1 + Len(x)) : (y \o x)[i] = IF i <= 1 THEN y[i] ELSE x[i - 1]
      <4>1. /\ Len(y \o x) = Len(y) + Len(x) /\ y \o x \in Seq(Messages)
            /\ \A i \in 1..(Len(y) + Len(x)) : (y \o x)[i] = IF i <= Len(y) THEN y[i] ELSE x[i - Len(y)]
        BY <2>2, <3>1, ConcatProperties
      <4> QED
        BY <3>1, <4>1
    <3>3. DOMAIN (y \o x) = 1..(1 + Len(x))
      BY <3>2, LenProperties
    <3>4. L = y \o x
      BY <2>3, <3>1
    <3> QED
      BY <2>2, <3>1, <3>2, <3>3, <3>4
  <2>6. \A e \in ToolResults : e.role # "assistant"
    BY DEF ToolResults, IsTool
  <2>7. ASSUME NEW i \in DOMAIN L, L[i].role = "assistant", NEW k \in DOMAIN L[i].calls
        PROVE  i + k \in DOMAIN L /\ L[i + k] = ResultFor(R, L[i].calls[k].id)
    <3>1. i = 1
      BY <2>2, <2>5, <2>6, <2>7, ElementOfSeq
    <3>2. k \in 1..Len(x)
      BY <2>2, <2>5, <3>1
    <3>3. i + k \in 1..(1 + Len(x)) /\ i + k # 1 /\ (i + k) - 1 = k
      BY <2>2, <3>1, <3>2
    <3> QED
      BY <2>2, <2>5, <3>1, <3>2, <3>3
  <2> QED
    BY <2>4, <2>7 DEF InOrder
<1> QED
  BY <1>1, <1>2

LEMMA InOrderAll ==
  ASSUME NEW R \in Seq(Proper)
  PROVE  \A s \in Seq(Proper) : InOrder(R, FlatMap(Blocks(R), s))
<1> DEFINE Good == {s \in Seq(Proper) : InOrder(R, FlatMap(Blocks(R), s))}
<1>0. PICK B \in Maps(Proper, Messages) : B = Blocks(R)
  BY BlocksType
<1>1. <<>> \in Good
  <2>1. DOMAIN <<>> = {} /\ <<>> \in Seq(Proper)
    BY EmptySeq, LenProperties
  <2> QED
    BY <2>1, FlatMapEmpty DEF InOrder
<1>2. ASSUME NEW r \in Seq(Proper), NEW e \in Proper, r \in Good PROVE Append(r, e) \in Good
  <2>1. PICK y \in Seq(Messages), z \in Seq(Messages) : y = FlatMap(B, r) /\ z = B[e]
    BY <1>0, FlatMapType, MapsTo
  <2>2. FlatMap(B, Append(r, e)) = y \o z
    BY <1>0, <2>1, FlatMapAppend
  <2>3. InOrder(R, y) /\ InOrder(R, z)
    BY <1>0, <1>2, <2>1, InOrderBlock
  <2>4. InOrder(R, y \o z)
    BY <2>1, <2>3, InOrderConcat
  <2> QED
    BY <1>0, <2>2, <2>4, AppendProperties
<1>3. Seq(Proper) \subseteq Good
  <2> HIDE DEF Good
  <2> QED
    BY <1>1, <1>2, SnocInduction
<1> QED
  BY <1>3

\* The results of tools in some messages.
ToolsIn == [m \in Messages |-> IF IsTool(m) THEN <<m>> ELSE <<>>]

LEMMA ToolsAre ==
  /\ ToolsIn \in Maps(Messages, Messages)
  /\ \A m \in Messages : ToolsIn[m] = IF IsTool(m) THEN <<m>> ELSE <<>>
<1>1. \A m \in Messages : <<m>> \in Seq(Messages) /\ <<>> \in Seq(Messages)
  BY Single, EmptySeq
<1> QED
  BY <1>1 DEF ToolsIn, Maps

LEMMA ToolsCount ==
  \A L \in Seq(Messages) : LET at == {i \in DOMAIN L : IsTool(L[i])}
                           IN IsFiniteSet(at) /\ Cardinality(at) = Len(FlatMap(ToolsIn, L))
<1> DEFINE Places(L) == {i \in DOMAIN L : IsTool(L[i])}
<1> DEFINE Good == {L \in Seq(Messages) : IsFiniteSet(Places(L)) /\ Cardinality(Places(L)) = Len(FlatMap(ToolsIn, L))}
<1>1. <<>> \in Good
  <2>1. DOMAIN <<>> = {} /\ <<>> \in Seq(Messages) /\ Len(<<>>) = 0
    BY EmptySeq, LenProperties
  <2>2. Places(<<>>) = {}
    BY <2>1
  <2> QED
    BY <2>1, <2>2, FS_EmptySet, FlatMapEmpty
<1>2. ASSUME NEW r \in Seq(Messages), NEW e \in Messages, r \in Good PROVE Append(r, e) \in Good
  <2>1. PICK q \in Seq(Messages) : q = Append(r, e)
    BY AppendProperties
  <2>2. /\ DOMAIN q = 1..(Len(r) + 1) /\ DOMAIN r = 1..Len(r) /\ Len(r) \in Nat
        /\ \A i \in 1..Len(r) : i \in 1..(Len(r) + 1) /\ i # Len(r) + 1 /\ q[i] = r[i]
        /\ q[Len(r) + 1] = e /\ Len(r) + 1 \in 1..(Len(r) + 1)
        /\ \A i \in 1..(Len(r) + 1) : i # Len(r) + 1 => i \in 1..Len(r)
    BY <2>1, Appended
  <2>3. Places(q) = IF IsTool(e) THEN Places(r) \cup {Len(r) + 1} ELSE Places(r)
    BY <2>2
  <2>4. Len(r) + 1 \notin Places(r)
    BY <2>2
  <2>5. IsFiniteSet(Places(r)) /\ Cardinality(Places(r)) = Len(FlatMap(ToolsIn, r))
    BY <1>2
  <2>6. PICK y \in Seq(Messages) : y = FlatMap(ToolsIn, r)
    BY ToolsAre, FlatMapType
  <2>7. FlatMap(ToolsIn, q) = y \o ToolsIn[e]
    BY <2>1, <2>6, ToolsAre, FlatMapAppend
  <2>8. CASE IsTool(e)
    <3>1. ToolsIn[e] = <<e>> /\ y \o <<e>> = Append(y, e)
      BY <2>6, <2>8, ToolsAre, AppendIsConcat
    <3>2. Len(Append(y, e)) = Len(y) + 1
      BY <2>6, AppendProperties
    <3>3. IsFiniteSet(Places(q)) /\ Cardinality(Places(q)) = Cardinality(Places(r)) + 1
      <4>1. PICK a, n : a = Places(r) /\ n = Len(r) + 1
        OBVIOUS
      <4>2. IsFiniteSet(a) /\ n \notin a /\ Places(q) = a \cup {n}
        BY <2>3, <2>4, <2>5, <2>8, <4>1
      <4>3. IsFiniteSet(a \cup {n}) /\ Cardinality(a \cup {n}) = Cardinality(a) + 1
        BY <4>2, FS_AddElement
      <4> QED
        BY <4>1, <4>2, <4>3
    <3> QED
      BY <2>1, <2>5, <2>6, <2>7, <3>1, <3>2, <3>3
  <2>9. CASE ~IsTool(e)
    <3>1. ToolsIn[e] = <<>> /\ y \o <<>> = y
      BY <2>6, <2>9, ToolsAre, ConcatEmptySeq
    <3> QED
      BY <2>1, <2>3, <2>5, <2>6, <2>7, <2>9, <3>1
  <2> QED
    BY <2>8, <2>9
<1>3. Seq(Messages) \subseteq Good
  <2> HIDE DEF Good
  <2> QED
    BY <1>1, <1>2, SnocInduction
<1> QED
  BY <1>3

\* As many results as calls.
LEMMA BlocksTools ==
  ASSUME NEW R \in Seq(Proper)
  PROVE  Len(FlatMap(ToolsIn, FlatMap(Blocks(R), R))) = Len(CallsOf(R))
<1> DEFINE F == [m \in Proper |-> FlatMap(ToolsIn, Blocks(R)[m])]
<1> DEFINE G == [m \in Proper |-> m.calls]
<1>0. ToolsIn \in Maps(Messages, Messages) /\ Blocks(R) \in Maps(Proper, Messages)
  BY ToolsAre, BlocksType
<1>1. F \in Maps(Proper, Messages) /\ \A m \in Proper : F[m] = FlatMap(ToolsIn, Blocks(R)[m])
  <2>1. \A m \in Proper : FlatMap(ToolsIn, Blocks(R)[m]) \in Seq(Messages)
    BY <1>0, MapsTo, FlatMapType
  <2> QED
    BY <2>1 DEF Maps
<1>2. G \in Maps(Proper, CallSet) /\ \A m \in Proper : G[m] = m.calls
  <2>1. \A m \in Proper : m.calls \in Seq(CallSet)
    BY DEF Proper, Messages
  <2> QED
    BY <2>1 DEF Maps
<1> HIDE DEF F, G
<1>3. ASSUME NEW m \in Proper PROVE Len(F[m]) = Len(G[m])
  <2>0. m \in Messages /\ (m.role # "assistant" => m.calls = <<>>)
    BY DEF Proper
  <2>1. CASE IsTool(m) \/ IsSystem(m)
    <3>1. m.calls = <<>> /\ Blocks(R)[m] = <<>>
      BY <2>0, <2>1, BlocksType DEF IsTool, IsSystem
    <3> QED
      BY <1>1, <1>2, <3>1, FlatMapEmpty
  <2>2. CASE ~IsTool(m) /\ ~IsSystem(m)
    <3>1. PICK x : x = ResultsIn(R, m)
      OBVIOUS
    <3>2. x \in Seq(Messages) /\ x \in Seq(ToolResults) /\ Len(x) = Len(m.calls)
      BY <3>1, ResultsType
    <3>3. PICK y : y = <<m>>
      OBVIOUS
    <3>4. Blocks(R)[m] = y \o x /\ y \in Seq(Messages)
      BY <2>0, <2>2, <3>1, <3>3, BlocksType, Single
    <3>5. FlatMap(ToolsIn, y \o x) = FlatMap(ToolsIn, y) \o FlatMap(ToolsIn, x)
      <4>1. y \in Seq(Messages) /\ x \in Seq(Messages)
        BY <3>2, <3>4
      <4> QED
        BY <1>0, <4>1, FlatMapConcat
    <3>6. FlatMap(ToolsIn, y) = <<>>
      <4>1. ToolsIn[m] = <<>>
        BY <2>0, <2>2, ToolsAre
      <4> QED
        BY <1>0, <2>0, <3>3, <4>1, FlatMapOne
    <3>7. FlatMap(ToolsIn, x) = x
      <4>1. ToolResults \subseteq Messages /\ \A e \in ToolResults : ToolsIn[e] = <<e>>
        BY ToolsAre DEF ToolResults, Silent
      <4>2. \A s \in Seq(ToolResults) : FlatMap(ToolsIn, s) = s
        BY <1>0, <4>1, FlatMapSame
      <4> QED
        BY <3>2, <4>2
    <3>8. <<>> \o x = x
      BY <3>2, ConcatEmptySeq
    <3> QED
      BY <1>1, <1>2, <3>2, <3>4, <3>5, <3>6, <3>7, <3>8
  <2> QED
    BY <2>1, <2>2
<1>4. \A s \in Seq(Proper) : FlatMap(ToolsIn, FlatMap(Blocks(R), s)) = FlatMap(F, s)
  BY <1>0, <1>1, FlatMapTwice
<1>5. \A s \in Seq(Proper) : Len(FlatMap(F, s)) = Len(FlatMap(G, s))
  BY <1>1, <1>2, <1>3, FlatMapLen
<1>6. FlatMap(G, R) = CallsOf(R)
  <2>1. \A i \in DOMAIN R : G[R[i]] = R[i].calls
    BY <1>2, ElementOfSeq, LenProperties
  <2> QED
    BY <2>1 DEF FlatMap, CallsOf
<1> QED
  BY <1>4, <1>5, <1>6

\* A result with the name of a call is of this call.
LEMMA OrderedResult ==
  ASSUME NEW R, Ordered(R), NEW j \in DOMAIN CallsOf(R), NEW x \in Range(R), AnswersTo(x, CallsOf(R)[j].id)
  PROVE  x.n = CallsOf(R)[j].n
<1>1. PICK C \in Seq(CallSet) : C = CallsOf(R)
  BY DEF Ordered
<1>2. DOMAIN C \subseteq Nat /\ \A k \in DOMAIN C : C[k].id = <<k - 1, 0>>
  BY <1>1, LenProperties DEF Ordered
<1>3. IsTool(x) /\ x.answers.id = C[j].id
  BY <1>1 DEF AnswersTo
<1>4. PICK k \in DOMAIN C : x.answers.id = <<k - 1, 0>> /\ x.n = C[k].n
  BY <1>1, <1>3 DEF Ordered, Bears, Range
<1>5. <<k - 1, 0>> = <<j - 1, 0>> /\ j \in DOMAIN C
  BY <1>1, <1>2, <1>3, <1>4
<1>6. k - 1 = j - 1
  BY <1>5
<1>7. k = j
  BY <1>2, <1>4, <1>5, <1>6
<1> QED
  BY <1>1, <1>4, <1>7

LEMMA LaidPaired ==
  ASSUME NEW R, Ordered(R)
  PROVE  /\ Paired(FlatMap(Blocks(R), R))
         /\ \A i \in DOMAIN R : ~IsSystem(R[i]) =>
              \E k \in Range(FlatMap(Blocks(R), R)) : k.role = R[i].role /\ k.n = R[i].n
<1>0. R \in Seq(Proper) /\ R \in Seq(Messages)
  <2>1. Proper \subseteq Messages
    BY DEF Proper
  <2> QED
    BY <2>1, SeqSubset DEF Ordered
<1>1. PICK L \in Seq(Messages) : L = FlatMap(Blocks(R), R)
  BY <1>0, LaidOutIs
<1>2. PICK C \in Seq(CallSet) : C = CallsOf(R) /\ C = CallsOf(L)
  BY <1>0, <1>1, BlocksCalls DEF Ordered
<1>3. DOMAIN C = 1..Len(C) /\ Len(C) \in Nat /\ \A k \in DOMAIN C : C[k].id = <<k - 1, 0>> /\ C[k] \in CallSet
  BY <1>2, LenProperties, ElementOfSeq DEF Ordered
<1>4. IsInjective([k \in DOMAIN CallsOf(L) |-> CallsOf(L)[k].id])
  <2>1. ASSUME NEW j \in DOMAIN C, NEW k \in DOMAIN C, C[j].id = C[k].id PROVE j = k
    <3>1. <<j - 1, 0>> = <<k - 1, 0>>
      BY <1>3, <2>1
    <3>2. j - 1 = k - 1
      BY <3>1
    <3> QED
      BY <1>3, <3>2
  <2>2. PICK f : f = [k \in DOMAIN C |-> C[k].id]
    OBVIOUS
  <2>3. DOMAIN f = DOMAIN C /\ \A k \in DOMAIN C : f[k] = C[k].id
    BY <2>2
  <2>4. IsInjective(f)
    BY <2>1, <2>3 DEF IsInjective
  <2> QED
    BY <1>2, <2>2, <2>4
<1>5. InOrder(R, L)
  BY <1>0, <1>1, InOrderAll
\* Each call of a message is one of those of all messages.
<1>6. ASSUME NEW i \in DOMAIN L, NEW k \in DOMAIN L[i].calls PROVE \E j \in DOMAIN C : C[j] = L[i].calls[k]
  <2>1. \A s \in Seq(Messages) : \A x \in DOMAIN s : Range(CallsIn[s[x]]) \subseteq Range(FlatMap(CallsIn, s))
    BY CallsAre, FlatMapRange
  <2>2. L[i] \in Messages /\ CallsIn[L[i]] = L[i].calls /\ FlatMap(CallsIn, L) = C
    BY <1>1, <1>2, CallsAre, ElementOfSeq, LenProperties
  <2>3. Range(L[i].calls) \subseteq Range(C)
    BY <1>1, <2>1, <2>2
  <2> QED
    BY <2>3 DEF Range
<1>7. ASSUME NEW j \in DOMAIN C
      PROVE  /\ IsTool(ResultFor(R, C[j].id)) /\ ResultFor(R, C[j].id).answers.id = C[j].id
             /\ ResultFor(R, C[j].id).n \in {C[j].n, Synthetic}
             /\ (\E i \in DOMAIN R : AnswersTo(R[i], C[j].id)) => ResultFor(R, C[j].id).n = C[j].n
  <2>1. PICK x : x = ResultFor(R, C[j].id)
    OBVIOUS
  <2>2. C[j].id \in Seq(Int)
    BY <1>3 DEF CallSet
  <2>3. /\ IsTool(x) /\ x.answers.id = C[j].id
        /\ x \in Range(R) \/ x.n = Synthetic
        /\ (\E i \in DOMAIN R : AnswersTo(R[i], C[j].id)) => x \in Range(R)
    BY <1>0, <2>1, <2>2, ResultForType
  <2>4. x \in Range(R) => x.n = C[j].n
    BY <1>2, <2>3, OrderedResult DEF AnswersTo
  <2> QED
    BY <2>1, <2>3, <2>4
<1>8. ASSUME NEW i \in DOMAIN L, L[i].role = "assistant", NEW k \in DOMAIN L[i].calls
      PROVE  /\ i + k \in DOMAIN L
             /\ IsTool(L[i + k])
             /\ L[i + k].answers.id = L[i].calls[k].id
             /\ L[i + k].n \in {L[i].calls[k].n, Synthetic}
  <2>1. i + k \in DOMAIN L /\ L[i + k] = ResultFor(R, L[i].calls[k].id)
    BY <1>5, <1>8 DEF InOrder
  <2>2. PICK j \in DOMAIN C : C[j] = L[i].calls[k]
    BY <1>6
  <2> QED
    BY <1>7, <2>1, <2>2
<1>9. Cardinality({i \in DOMAIN L : IsTool(L[i])}) = Len(CallsOf(L))
  <2>1. Cardinality({i \in DOMAIN L : IsTool(L[i])}) = Len(FlatMap(ToolsIn, L))
    BY <1>1, ToolsCount
  <2> QED
    BY <1>0, <1>1, <1>2, <2>1, BlocksTools
<1>10. Paired(L)
  BY <1>4, <1>8, <1>9 DEF Paired
\* What is made of a message is in the whole.
<1>11. \A i \in DOMAIN R : Range(Blocks(R)[R[i]]) \subseteq Range(L) /\ R[i] \in Proper
  <2>1. Blocks(R) \in Maps(Proper, Messages)
    BY <1>0, BlocksType
  <2>2. \A s \in Seq(Proper) : \A i \in DOMAIN s : Range(Blocks(R)[s[i]]) \subseteq Range(FlatMap(Blocks(R), s))
    BY <2>1, FlatMapRange
  <2> QED
    BY <1>0, <1>1, <2>2, ElementOfSeq, LenProperties
<1>12. ASSUME NEW i \in DOMAIN R, ~IsTool(R[i]), ~IsSystem(R[i])
       PROVE  R[i] \in Range(L) /\ Range(ResultsIn(R, R[i])) \subseteq Range(L)
  <2>1. PICK m \in Proper : m = R[i]
    BY <1>11
  <2>2. PICK x \in Seq(Messages) : x = ResultsIn(R, m)
    BY <1>0, ResultsType
  <2>3. PICK y : y = <<m>>
    OBVIOUS
  <2>4. y \in Seq(Messages) /\ Range(y) = {m}
    BY <2>1, <2>3, Single DEF Proper
  <2>5. Blocks(R)[m] = y \o x
    BY <1>0, <1>12, <2>1, <2>2, <2>3, BlocksType
  <2>6. Range(y \o x) = Range(y) \cup Range(x)
    BY <2>2, <2>4, RangeConcatenation
  <2>7. Range(y \o x) \subseteq Range(L)
    BY <1>11, <2>1, <2>5
  <2> QED
    BY <2>1, <2>2, <2>4, <2>6, <2>7
<1>13. ASSUME NEW i \in DOMAIN R, ~IsSystem(R[i])
       PROVE  \E k \in Range(L) : k.role = R[i].role /\ k.n = R[i].n
  <2>1. CASE ~IsTool(R[i])
    BY <1>12, <1>13, <2>1
  <2>2. CASE IsTool(R[i])
    <3>1. PICK j \in DOMAIN C : R[i].answers.id = <<j - 1, 0>> /\ R[i].n = C[j].n
      BY <1>2, <2>2 DEF Ordered, Bears
    <3>2. AnswersTo(R[i], C[j].id)
      BY <1>3, <2>2, <3>1 DEF AnswersTo
    <3>3. PICK h \in DOMAIN R : \E k \in DOMAIN R[h].calls : R[h].calls[k] = C[j]
      BY <1>0, <1>2, CallMade DEF Range
    <3>4. PICK k \in DOMAIN R[h].calls : R[h].calls[k] = C[j]
      BY <3>3
    <3>5. PICK m \in Proper : m = R[h]
      BY <1>11
    <3>6. m.calls # <<>>
      BY <3>4, <3>5, EmptySeq, LenProperties
    <3>7. ~IsTool(m) /\ ~IsSystem(m)
      BY <3>6 DEF Proper, IsTool, IsSystem
    <3>8. PICK x \in Seq(Messages) : x = ResultsIn(R, m) /\ DOMAIN x = DOMAIN m.calls
                                   /\ x[k] = ResultFor(R, m.calls[k].id)
      <4>1. k \in DOMAIN m.calls
        BY <3>4, <3>5
      <4> QED
        BY <1>0, <4>1, ResultsType DEF ResultsIn
    <3>9. Range(x) \subseteq Range(L)
      BY <1>12, <3>5, <3>7, <3>8
    <3>10. x[k] \in Range(L) /\ x[k] = ResultFor(R, C[j].id)
      BY <3>4, <3>5, <3>8, <3>9 DEF Range
    <3>11. IsTool(x[k]) /\ x[k].n = C[j].n
      BY <1>7, <3>2, <3>10
    <3> QED
      BY <2>2, <3>1, <3>10, <3>11 DEF IsTool
  <2> QED
    BY <2>1, <2>2
<1> QED
  BY <1>1, <1>10, <1>13

\* So the messages of a request are paired, and show all that is in history and carried.
LEMMA RequestPaired ==
  ASSUME NEW s \in Seq(Asked), Sound(s)
  PROVE  /\ Paired(LaidOut(s)) /\ LaidOut(s) \in Seq(Messages)
         /\ \A i \in DOMAIN s : ~IsSystem(s[i]) => \E k \in Range(LaidOut(s)) : k.role = s[i].role /\ k.n = s[i].n
<1>1. PICK R : R = Remapped(s)
  OBVIOUS
<1>2. Ordered(R) /\ R \in Seq(Proper)
  BY <1>1, RemapOrdered DEF Ordered
<1>3. LaidOut(s) = FlatMap(Blocks(R), R) /\ LaidOut(s) \in Seq(Messages)
  BY <1>1, <1>2, LaidOutIs DEF LaidOut
<1>4. DOMAIN R = DOMAIN s /\ \A i \in DOMAIN s : R[i].role = s[i].role /\ R[i].n = s[i].n
  BY <1>1, RenamedIs DEF Remapped, Named
<1> QED
  BY <1>2, <1>3, <1>4, LaidPaired DEF IsSystem

-----------------------------------------------------------------------------
(* What is carried behind the history.                                     *)

LEMMA FrontLast ==
  ASSUME NEW S, NEW s \in Seq(S), NEW e \in S
  PROVE  Last(Append(s, e)) = e /\ Front(Append(s, e)) = s /\ Append(s, e) # <<>>
<1>1. /\ Append(s, e)[Len(s) + 1] = e /\ Len(Append(s, e)) = Len(s) + 1 /\ Len(s) \in Nat
      /\ Len(s) + 1 \in 1..(Len(s) + 1)
  BY Appended
<1>2. SubSeq(Append(s, e), 1, (Len(s) + 1) - 1) = SubSeq(s, 1, (Len(s) + 1) - 1)
      /\ SubSeq(s, 1, (Len(s) + 1) - 1) = s
  BY <1>1, BeforeAppended
<1>3. Append(s, e) # <<>>
  BY <1>1, EmptySeq
<1> QED
  BY <1>1, <1>2, <1>3 DEF Last, Front

\* The calls of the last answer are the last with their identifiers.
LEMMA EndedLast ==
  ASSUME NEW g \in Seq(Messages), NEW a \in Messages, Distinct(a.calls), NEW j \in DOMAIN a.calls
  PROVE  /\ Ended(CallsOf(Append(g, a)), a.calls[j])
         /\ NameOf(CallsOf(Append(g, a)), a.calls[j].id) = <<Len(CallsOf(g)) + j - 1, 0>>
<1>1. PICK p \in Seq(CallSet), q \in Seq(CallSet) : p = CallsOf(g) /\ q = a.calls /\ CallsOf(Append(g, a)) = p \o q
  BY CallsType, CallsAppend
<1>2. PICK c : c = p \o q
  OBVIOUS
<1>3. /\ c \in Seq(CallSet) /\ Len(p) \in Nat /\ Len(q) \in Nat
      /\ \A i \in 1..(Len(p) + Len(q)) : c[i] = IF i <= Len(p) THEN p[i] ELSE q[i - Len(p)]
      /\ DOMAIN c = 1..(Len(p) + Len(q)) /\ DOMAIN q = 1..Len(q)
  <2>1. /\ c \in Seq(CallSet) /\ Len(c) = Len(p) + Len(q)
        /\ \A i \in 1..(Len(p) + Len(q)) : c[i] = IF i <= Len(p) THEN p[i] ELSE q[i - Len(p)]
    BY <1>1, <1>2, ConcatProperties
  <2>2. DOMAIN q = 1..Len(q) /\ DOMAIN c = 1..Len(c) /\ Len(p) \in Nat /\ Len(q) \in Nat
    BY <1>1, <2>1, LenProperties
  <2> QED
    BY <2>1, <2>2
<1>4. PICK n \in DOMAIN c : n = Len(p) + j /\ c[n] = q[j] /\ j \in 1..Len(q)
  <2>1. j \in 1..Len(q)
    BY <1>1, <1>3
  <2>2. Len(p) + j \in DOMAIN c /\ ~(Len(p) + j <= Len(p)) /\ (Len(p) + j) - Len(p) = j
    BY <1>3, <2>1
  <2> QED
    BY <1>3, <2>1, <2>2
<1>5. ASSUME NEW k \in DOMAIN c, c[k].id = c[n].id PROVE k <= n
  <2>1. CASE k <= Len(p)
    BY <1>3, <1>4, <2>1
  <2>2. CASE ~(k <= Len(p))
    <3>1. k - Len(p) \in DOMAIN q /\ c[k] = q[k - Len(p)] /\ j \in DOMAIN q
      BY <1>3, <1>4, <2>2
    <3>2. k - Len(p) = j
      BY <1>1, <1>4, <1>5, <3>1 DEF Distinct
    <3> QED
      BY <1>3, <1>4, <3>2
  <2> QED
    BY <2>1, <2>2
<1>6. Ended(c, c[n])
  BY <1>5 DEF Ended
<1>7. NameOf(c, c[n].id) = <<n - 1, 0>>
  BY <1>3, <1>5, NameIs
<1> QED
  BY <1>1, <1>2, <1>4, <1>6, <1>7

\* Nothing that is carried disturbs what is sound.
LEMMA SoundBehind ==
  ASSUME NEW h \in Seq(Messages), Sound(h), NEW X, X \subseteq Silent,
         \A m \in X : IsTool(m) => Ended(CallsOf(h), m.answers)
  PROVE  \A t \in Seq(X) : Sound(h \o t) /\ h \o t \in Seq(Messages) /\ CallsOf(h \o t) = CallsOf(h)
<1>0. ASSUME NEW t \in Seq(X) PROVE h \o t \in Seq(Messages) /\ CallsOf(h \o t) = CallsOf(h)
  <2>1. t \in Seq(Silent)
    BY SeqSubset
  <2> QED
    BY <2>1, RemapSilent
<1> DEFINE Good == {t \in Seq(X) : Sound(h \o t)}
<1>1. <<>> \in Good
  BY EmptySeq, ConcatEmptySeq
<1>2. ASSUME NEW r \in Seq(X), NEW e \in X, r \in Good PROVE Append(r, e) \in Good
  <2>0. r \in Seq(Messages) /\ e \in Messages /\ Append(r, e) \in Seq(X)
    <3>1. X \subseteq Messages
      BY DEF Silent
    <3> QED
      BY <3>1, SeqSubset, AppendProperties
  <2>1. PICK q \in Seq(Messages) : q = h \o r /\ CallsOf(q) = CallsOf(h)
    BY <1>0
  <2>2. h \o Append(r, e) = Append(q, e)
    BY <2>0, <2>1, AppendConcat
  <2>3. Sound(Append(q, e)) <=> Sound(q) /\ (IsTool(e) => Ended(CallsOf(q), e.answers))
    BY <2>0, <2>1, SoundAppend
  <2> QED
    BY <1>2, <2>0, <2>1, <2>2, <2>3
<1>3. Seq(X) \subseteq Good
  <2> HIDE DEF Good
  <2> QED
    BY <1>1, <1>2, SnocInduction
<1> QED
  BY <1>0, <1>3

LEMMA TalkSplit ==
  ASSUME NEW h, Talk(h), h # <<>>
  PROVE  /\ Front(h) \in Seq(Given) /\ Last(h) \in Answers /\ h = Append(Front(h), Last(h))
         /\ Distinct(Last(h).calls) /\ LastCalls(h) = Range(Last(h).calls)
<1>1. h \in Seq(Given) /\ Len(h) \in Nat /\ Len(h) > 0 /\ DOMAIN h = 1..Len(h)
  BY LenProperties, EmptySeq DEF Talk
<1>2. PICK n \in Nat : n = Len(h) - 1 /\ Len(h) = n + 1
  <2>1. Len(h) - 1 \in Nat /\ Len(h) = (Len(h) - 1) + 1
    BY <1>1
  <2> QED
    BY <2>1
<1>3. /\ SubSeq(h, 1, n) \in Seq(Given)
      /\ Len(SubSeq(h, 1, n)) = IF 1 <= n THEN n - 1 + 1 ELSE 0
      /\ \A i \in 1..(n - 1 + 1) : SubSeq(h, 1, n)[i] = h[1 + i - 1]
  <2>1. 1 \in Int /\ n \in Int /\ \A i \in 1..n : h[i] \in Given
    BY <1>1, <1>2, ElementOfSeq
  <2> QED
    BY <2>1, SubSeqProperties
<1>4. PICK x : x = SubSeq(h, 1, n)
  OBVIOUS
<1>5. x \in Seq(Given) /\ Len(x) = n /\ \A i \in 1..n : x[i] = h[i]
  <2>1. \A i \in 1..n : i \in 1..(n - 1 + 1) /\ 1 + i - 1 = i
    BY <1>2
  <2> QED
    BY <1>2, <1>3, <1>4, <2>1
<1>6. PICK e : e = h[n + 1] /\ e \in Given
  BY <1>1, <1>2, ElementOfSeq
<1>7. PICK y : y = Append(x, e)
  OBVIOUS
<1>8. /\ y \in Seq(Given) /\ Len(y) = n + 1 /\ y[n + 1] = e /\ \A i \in 1..n : y[i] = x[i]
  <2>1. /\ Append(x, e) \in Seq(Given) /\ Len(Append(x, e)) = Len(x) + 1 /\ Append(x, e)[Len(x) + 1] = e
        /\ \A i \in 1..Len(x) : Append(x, e)[i] = x[i]
    BY <1>5, <1>6, AppendProperties
  <2> QED
    BY <1>5, <1>7, <2>1
<1>9. h = y
  <2>1. \A i \in 1..Len(h) : h[i] = y[i]
    BY <1>1, <1>2, <1>5, <1>6, <1>8
  <2> QED
    BY <1>1, <1>2, <1>8, <2>1, SeqEqual
<1>10. Front(h) = x /\ Last(h) = e
  BY <1>2, <1>4, <1>6 DEF Front, Last
<1> QED
  BY <1>5, <1>7, <1>9, <1>10 DEF Talk, LastCalls

LEMMA SoundCarried ==
  ASSUME NEW h, Talk(h)
  PROVE  /\ h \in Seq(Messages) /\ h \in Seq(Asked) /\ Carried(h) \subseteq Silent /\ Carried(h) \subseteq Asked
         /\ \A t \in Seq(Carried(h)) : Sound(h \o t) /\ h \o t \in Seq(Messages) /\ h \o t \in Seq(Asked)
                                       /\ CallsOf(h \o t) = CallsOf(h)
<1>1. h \in Seq(Messages) /\ h \in Seq(Asked) /\ Sound(h)
  <2>1. Given \subseteq Asked /\ Given \subseteq Messages
    BY AskedIs
  <2> QED
    BY <2>1, SeqSubset DEF Talk
<1>2. Carried(h) \subseteq Silent /\ Carried(h) \subseteq Asked
  BY DEF Carried
<1>3. ASSUME NEW m \in Carried(h), IsTool(m) PROVE Ended(CallsOf(h), m.answers)
  <2>1. PICK g \in Seq(Given), a \in Answers : h = Append(g, a) /\ Distinct(a.calls) /\ LastCalls(h) = Range(a.calls)
    <3>1. h # <<>>
      BY <1>3 DEF Carried, LastCalls
    <3> QED
      BY <3>1, TalkSplit
  <2>2. a \in Messages /\ g \in Seq(Messages)
    <3>1. Given \subseteq Messages /\ Answers \subseteq Messages
      BY AskedIs
    <3> QED
      BY <3>1, SeqSubset
  <2>4. PICK k \in DOMAIN a.calls : a.calls[k] = m.answers
    BY <1>3, <2>1 DEF Carried, Range
  <2> QED
    BY <2>1, <2>2, <2>4, EndedLast
<1>4. \A t \in Seq(Carried(h)) : Sound(h \o t) /\ h \o t \in Seq(Messages) /\ CallsOf(h \o t) = CallsOf(h)
  BY <1>1, <1>2, <1>3, SoundBehind
<1>5. \A t \in Seq(Carried(h)) : h \o t \in Seq(Asked)
  BY <1>1, <1>2, SeqSubset, ConcatProperties
<1> QED
  BY <1>1, <1>2, <1>4, <1>5

\* Wherever the system message is, the provider puts it elsewhere.
LEMMA SystemHoisted ==
  ASSUME NEW h, Talk(h), NEW t \in Seq(Carried(h))
  PROVE  /\ LaidOut(h \o (<<System>> \o t)) = LaidOut(h \o t)
         /\ <<System>> \o t \in Seq(Carried(h))
<1>0. /\ h \in Seq(Messages) /\ Carried(h) \subseteq Silent /\ Silent \subseteq Messages
      /\ t \in Seq(Messages) /\ t \in Seq(Silent) /\ System \in Messages /\ System \in Carried(h)
  <2>1. Carried(h) \subseteq Silent /\ Silent \subseteq Messages /\ h \in Seq(Messages)
    BY SoundCarried, AskedIs
  <2>2. System \in Carried(h)
    BY SystemIs, AskedIs DEF Carried, Silent
  <2> QED
    BY <2>1, <2>2, SeqSubset, SystemIs
<1>1. PICK y : y = <<System>>
  OBVIOUS
<1>2. y \in Seq(Carried(h)) /\ y \in Seq(Messages)
  BY <1>0, <1>1, Single
<1>3. y \o t \in Seq(Carried(h))
  BY <1>2, ConcatProperties
<1>4. PICK H \in Seq(Messages) : H = Append(h, System)
  BY <1>0, AppendProperties
<1>5. h \o (y \o t) = H \o t
  <2>1. (h \o y) \o t = h \o (y \o t)
    BY <1>0, <1>2, ConcatThrice
  <2>2. H = h \o y
    BY <1>0, <1>1, <1>4, AppendIsConcat
  <2> QED
    BY <2>1, <2>2
<1>6. PICK b \in Seq(CallSet), R \in Seq(Messages) : b = CallsOf(h) /\ R = Remapped(h)
  BY <1>0, CallsType, CallsRemapped
<1>7. PICK T \in Seq(Messages) : T = Behind(b, t) /\ Remapped(h \o t) = R \o T
  BY <1>0, <1>6, RemapSilent
<1>8. PICK x \in Messages : x = Named(b, System)
  BY <1>0, <1>6, NamedType
<1>9. IsSystem(x) /\ ~IsTool(x)
  BY <1>8, SystemIs DEF Named, IsSystem, IsTool
<1>10. CallsOf(H) = b /\ Remapped(H) = Append(R, x)
  <2>1. CallsOf(H) = b \o System.calls /\ System.calls = <<>>
    BY <1>0, <1>4, <1>6, CallsAppend, SystemIs
  <2>2. b \o <<>> = b
    BY <1>6, ConcatEmptySeq
  <2> QED
    BY <1>0, <1>4, <1>6, <1>8, <2>1, <2>2, RemapAppend
<1>11. Remapped(H \o t) = Append(R, x) \o T
  <2>1. H \in Seq(Messages) /\ t \in Seq(Silent)
    BY <1>0, <1>4
  <2>2. Remapped(H \o t) = Remapped(H) \o Behind(CallsOf(H), t)
    BY <2>1, RemapSilent
  <2> QED
    BY <1>7, <1>10, <2>2
<1>12. PICK P, Q : P = R \o T /\ Q = Append(R, x) \o T
  OBVIOUS
<1>13. /\ P \in Seq(Proper) /\ LaidOut(h \o t) = FlatMap(Blocks(P), P)
       /\ Q \in Seq(Proper) /\ LaidOut(H \o t) = FlatMap(Blocks(Q), Q)
  <2>1. Sound(h \o t) /\ h \o t \in Seq(Asked)
    BY SoundCarried
  <2>2. Sound(h \o (y \o t)) /\ h \o (y \o t) \in Seq(Asked)
    BY <1>3, SoundCarried
  <2>3. P \in Seq(Proper) /\ Q \in Seq(Proper)
    BY <1>5, <1>7, <1>11, <1>12, <2>1, <2>2, RemapBears
  <2> QED
    BY <1>7, <1>11, <1>12, <2>3, LaidOutIs DEF LaidOut
<1>14. \A id : ResultFor(Q, id) = ResultFor(P, id)
  <2>1. \A id : ~AnswersTo(x, id)
    BY <1>9 DEF AnswersTo
  <2>2. ASSUME NEW id PROVE ResultFor(Append(R, x) \o T, id) = ResultFor(R \o T, id)
    <3>1. R \in Seq(Messages) /\ x \in Messages /\ T \in Seq(Messages) /\ ~AnswersTo(x, id)
      BY <1>6, <1>7, <1>8, <2>1
    <3> QED
      BY <3>1, ResultForSkips
  <2> QED
    BY <1>12, <2>2
<1>15. Blocks(Q) = Blocks(P)
  <2>1. \A m : ResultsIn(Q, m) = ResultsIn(P, m)
    BY <1>14 DEF ResultsIn
  <2> QED
    BY <2>1 DEF Blocks
<1>16. PICK B \in Maps(Proper, Messages) : B = Blocks(P)
  BY <1>13, BlocksType
<1>17. R \in Seq(Proper) /\ T \in Seq(Proper) /\ x \in Proper /\ B[x] = <<>>
  <2>1. R \in Seq(Proper)
    <3>1. Sound(h) /\ h \in Seq(Asked)
      BY SoundCarried DEF Talk
    <3> QED
      BY <1>6, <3>1, RemapBears
  <2>2. /\ DOMAIN T = 1..Len(T) /\ Len(T) \in Nat /\ Len(R) \in Nat /\ DOMAIN P = 1..(Len(R) + Len(T))
        /\ \A i \in 1..(Len(R) + Len(T)) : P[i] = IF i <= Len(R) THEN R[i] ELSE T[i - Len(R)]
    <3>1. Len(P) = Len(R) + Len(T) /\ \A i \in 1..(Len(R) + Len(T)) : P[i] = IF i <= Len(R) THEN R[i] ELSE T[i - Len(R)]
      BY <1>6, <1>7, <1>12, ConcatProperties
    <3>2. DOMAIN T = 1..Len(T) /\ Len(T) \in Nat /\ Len(R) \in Nat /\ DOMAIN P = 1..Len(P)
      BY <1>6, <1>7, <1>13, LenProperties
    <3> QED
      BY <3>1, <3>2
  <2>3. \A i \in 1..Len(T) : T[i] \in Proper
    <3>1. ASSUME NEW i \in 1..Len(T) PROVE T[i] \in Proper
      <4>1. Len(R) + i \in DOMAIN P /\ ~(Len(R) + i <= Len(R)) /\ (Len(R) + i) - Len(R) = i
        BY <2>2
      <4>2. P[Len(R) + i] = T[i]
        BY <2>2, <4>1
      <4>3. P[Len(R) + i] \in Proper
        BY <1>13, <4>1, ElementOfSeq, LenProperties
      <4> QED
        BY <4>2, <4>3
    <3> QED
      BY <3>1
  <2>4. T \in Seq(Proper)
    BY <1>7, <2>2, <2>3, IsASeq
  <2>5. x \in Proper
    BY <1>0, <1>6, <1>8, NamedProper, AskedIs
  <2> QED
    BY <1>9, <1>13, <1>16, <2>1, <2>4, <2>5, BlocksType
<1>18. FlatMap(B, P) = FlatMap(B, R) \o FlatMap(B, T)
  <2>1. B \in Maps(Proper, Messages) /\ R \in Seq(Proper) /\ T \in Seq(Proper)
    BY <1>16, <1>17
  <2>2. FlatMap(B, R \o T) = FlatMap(B, R) \o FlatMap(B, T)
    BY <2>1, FlatMapConcat
  <2> QED
    BY <1>12, <2>2
<1>19. FlatMap(B, Q) = FlatMap(B, R) \o FlatMap(B, T)
  <2>1. PICK r \in Seq(Proper) : r = Append(R, x)
    BY <1>17, AppendProperties
  <2>2. FlatMap(B, r) = FlatMap(B, R) \o <<>>
    <3>1. FlatMap(B, Append(R, x)) = FlatMap(B, R) \o B[x]
      BY <1>16, <1>17, FlatMapAppend
    <3> QED
      BY <1>17, <2>1, <3>1
  <2>3. FlatMap(B, R) \in Seq(Messages)
    BY <1>16, <1>17, FlatMapType
  <2>4. FlatMap(B, r) = FlatMap(B, R)
    BY <2>2, <2>3, ConcatEmptySeq
  <2>5. FlatMap(B, r \o T) = FlatMap(B, r) \o FlatMap(B, T)
    <3>1. B \in Maps(Proper, Messages) /\ r \in Seq(Proper) /\ T \in Seq(Proper)
      BY <1>16, <1>17, <2>1
    <3> QED
      BY <3>1, FlatMapConcat
  <2> QED
    BY <1>12, <2>1, <2>4, <2>5
<1> QED
  BY <1>1, <1>3, <1>5, <1>13, <1>15, <1>16, <1>18, <1>19

\* A sequence is a prefix of what starts with it.
LEMMA PrefixConcat ==
  ASSUME NEW S, NEW u \in Seq(S), NEW v \in Seq(S)
  PROVE  IsPrefix(u, u \o v)
<1>1. PICK w : w = u \o v
  OBVIOUS
<1>2. /\ w \in Seq(S) /\ Len(w) = Len(u) + Len(v) /\ Len(u) \in Nat /\ Len(v) \in Nat /\ DOMAIN w = 1..Len(w)
      /\ \A i \in 1..Len(u) : w[i] = u[i] /\ w[i] \in S /\ u[i] \in S
  <2>1. /\ w \in Seq(S) /\ Len(w) = Len(u) + Len(v)
        /\ \A i \in 1..(Len(u) + Len(v)) : w[i] = IF i <= Len(u) THEN u[i] ELSE v[i - Len(u)]
    BY <1>1, ConcatProperties
  <2>2. DOMAIN w = 1..Len(w) /\ Len(u) \in Nat /\ Len(v) \in Nat
    BY <2>1, LenProperties
  <2>3. \A i \in 1..Len(u) : u[i] \in S
    BY ElementOfSeq
  <2> QED
    BY <2>1, <2>2, <2>3
<1>3. SubSeq(u, 1, Len(u)) = u
  BY SubSeqFull
<1>4. /\ SubSeq(w, 1, Len(u)) \in Seq(S)
      /\ Len(SubSeq(w, 1, Len(u))) = IF 1 <= Len(u) THEN Len(u) - 1 + 1 ELSE 0
      /\ \A i \in 1..(Len(u) - 1 + 1) : SubSeq(w, 1, Len(u))[i] = w[1 + i - 1]
  <2>1. 1 \in Int /\ Len(u) \in Int /\ \A i \in 1..Len(u) : w[i] \in S
    BY <1>2
  <2> QED
    BY <2>1, SubSeqProperties
<1>5. PICK x : x = SubSeq(w, 1, Len(u))
  OBVIOUS
<1>6. x \in Seq(S) /\ Len(x) = Len(u) /\ \A i \in 1..Len(u) : x[i] = u[i]
  <2>1. \A i \in 1..Len(u) : i \in 1..(Len(u) - 1 + 1) /\ 1 + i - 1 = i
    BY <1>2
  <2> QED
    BY <1>2, <1>4, <1>5, <2>1
<1>7. x = u
  BY <1>6, SeqEqual
<1> QED
  BY <1>1, <1>2, <1>3, <1>5, <1>7 DEF IsPrefix

LEMMA PrefixParts ==
  ASSUME NEW S, NEW u \in Seq(S), NEW y \in Seq(S), NEW v \in Seq(S), NEW w \in Seq(S)
  PROVE  IsPrefix(u \o y, (u \o (y \o v)) \o w)
<1>1. (u \o (y \o v)) \o w = (u \o y) \o (v \o w)
  BY ConcatFour, SMTT(60)
<1>2. PICK a \in Seq(S), b \in Seq(S) : a = u \o y /\ b = v \o w
  BY ConcatProperties
<1>3. IsPrefix(a, a \o b)
  BY <1>2, PrefixConcat
<1> QED
  BY <1>1, <1>2, <1>3

\* What a message becomes is behind what those before it become.
LEMMA PartsPrefix ==
  ASSUME NEW U, NEW S, S \subseteq U, NEW F \in Maps(S, U), NEW s \in Seq(S), NEW e \in S, NEW t \in Seq(S),
         NEW v \in Seq(U), F[e] = <<e>> \o v
  PROVE  IsPrefix(Append(FlatMap(F, s), e), FlatMap(F, Append(s, e) \o t))
<1>1. PICK q \in Seq(S) : q = Append(s, e)
  BY AppendProperties
<1>2. FlatMap(F, q) = FlatMap(F, s) \o F[e]
  BY <1>1, FlatMapAppend
<1>3. q \in Seq(S)
  BY <1>1
<1>4. FlatMap(F, q \o t) = FlatMap(F, q) \o FlatMap(F, t)
  BY <1>3, FlatMapConcat
<1>5. PICK u \in Seq(U), w \in Seq(U) : u = FlatMap(F, s) /\ w = FlatMap(F, t)
  BY FlatMapType
<1>6. PICK y \in Seq(U) : y = <<e>>
  BY Single
<1>7. IsPrefix(u \o y, (u \o (y \o v)) \o w)
  BY <1>5, <1>6, PrefixParts
<1>8. Append(u, e) = u \o y
  BY <1>5, <1>6, AppendIsConcat
<1> QED
  BY <1>1, <1>2, <1>4, <1>5, <1>6, <1>7, <1>8

\* The calls before a last answer keep their results, whatever is carried behind it.
LEMMA ResultsKept ==
  ASSUME NEW g \in Seq(Given), NEW a \in Answers, Distinct(a.calls), Talk(Append(g, a)),
         NEW t \in Seq(Carried(Append(g, a))), NEW j \in DOMAIN CallsOf(Remapped(g))
  PROVE  ResultFor(Remapped(Append(g, a) \o t), <<j - 1, 0>>) = ResultFor(Remapped(g), <<j - 1, 0>>)
<1>0. /\ g \in Seq(Messages) /\ a \in Messages /\ ~IsTool(a) /\ Carried(Append(g, a)) \subseteq Silent
      /\ Append(g, a) \in Seq(Messages) /\ t \in Seq(Silent) /\ Silent \subseteq Messages
  <2>1. Given \subseteq Messages /\ Answers \subseteq Messages /\ Silent \subseteq Messages /\ \A m \in Answers : ~IsTool(m)
    BY AskedIs
  <2> QED
    BY <2>1, SeqSubset, AppendProperties, SoundCarried
<1>1. PICK h \in Seq(Messages) : h = Append(g, a)
  BY <1>0
<1>2. PICK b \in Seq(CallSet), c \in Seq(CallSet) : b = CallsOf(g) /\ c = CallsOf(h)
  BY <1>0, CallsType
<1>3. PICK R \in Seq(Messages), x \in Messages : R = Remapped(g) /\ x = Named(b, a) /\ Remapped(h) = Append(R, x)
  BY <1>0, <1>1, <1>2, CallsRemapped, NamedType, RemapAppend
<1>4. PICK T : T = Behind(c, t)
  OBVIOUS
<1>5. T \in Seq(Messages) /\ Remapped(h \o t) = Append(R, x) \o T
  <2>1. h \o t \in Seq(Messages) /\ Remapped(h \o t) = Remapped(h) \o Behind(CallsOf(h), t)
        /\ Behind(CallsOf(h), t) \in Seq(Messages)
    BY <1>0, RemapSilent
  <2> QED
    BY <1>2, <1>3, <1>4, <2>1
<1>6. j \in Nat /\ j >= 1 /\ j <= Len(b) /\ Len(b) \in Nat
  <2>1. CallsOf(R) = Numbers(0, b)
    BY <1>0, <1>2, <1>3, CallsRemapped
  <2>2. DOMAIN Numbers(0, b) = DOMAIN b /\ DOMAIN b = 1..Len(b) /\ Len(b) \in Nat
    BY <1>2, NumbersType
  <2>3. j \in 1..Len(b)
    BY <1>3, <2>1, <2>2
  <2> QED
    BY <2>2, <2>3
<1>7. PICK id : id = <<j - 1, 0>>
  OBVIOUS
<1>8. ~IsTool(x)
  BY <1>0, <1>3 DEF Named, IsTool
<1>9. T \in Seq({m \in Messages : ~AnswersTo(m, id)})
  <2>1. Len(T) \in Nat /\ DOMAIN T = 1..Len(T) /\ DOMAIN T = DOMAIN t /\ \A i \in 1..Len(T) : T[i] \in Messages
    <3>1. DOMAIN T = DOMAIN t
      BY <1>4 DEF Behind
    <3> QED
      BY <1>5, <3>1, LenProperties, ElementOfSeq
  <2>2. ASSUME NEW i \in 1..Len(T), AnswersTo(T[i], id) PROVE FALSE
    <3>1. T[i] = Named(c, t[i]) /\ t[i] \in Carried(h)
      <4>1. T[i] = Named(c, t[i])
        BY <1>4, <2>1 DEF Behind
      <4> QED
        BY <1>1, <2>1, <4>1, ElementOfSeq, LenProperties
    <3>2. IsTool(t[i]) /\ NameOf(c, t[i].answers.id) = id
      BY <2>2, <3>1 DEF AnswersTo, Named, IsTool, Call
    <3>3. Last(h) = a /\ h # <<>>
      BY <1>0, <1>1, FrontLast
    <3>4. PICK k \in DOMAIN a.calls : a.calls[k] = t[i].answers
      BY <1>1, <3>1, <3>2, <3>3 DEF Carried, LastCalls, Range
    <3>5. NameOf(c, a.calls[k].id) = <<Len(b) + k - 1, 0>>
      BY <1>0, <1>1, <1>2, EndedLast
    <3>6. <<Len(b) + k - 1, 0>> = <<j - 1, 0>>
      BY <1>7, <3>2, <3>4, <3>5
    <3>7. Len(b) + k - 1 = j - 1
      BY <3>6
    <3>8. k \in Nat /\ k >= 1
      <4>1. a.calls \in Seq(CallSet)
        BY <1>0 DEF Messages
      <4> QED
        BY <4>1, LenProperties
    <3> QED
      BY <1>6, <3>7, <3>8
  <2>3. \A i \in 1..Len(T) : T[i] \in {m \in Messages : ~AnswersTo(m, id)}
    BY <2>1, <2>2
  <2> QED
    BY <1>5, <2>1, <2>3, IsASeq
<1>10. PICK q \in Seq(Messages) : q = Append(R, x)
  BY <1>3, AppendProperties
<1>11. ResultFor(q \o T, id) = ResultFor(q, id)
  BY <1>9, <1>10, ResultForKept
<1>12. ResultFor(q, id) = ResultFor(R, id)
  <2>1. ~AnswersTo(x, id)
    BY <1>8 DEF AnswersTo
  <2> QED
    BY <1>3, <1>10, <2>1, ResultForAppend
<1> QED
  BY <1>1, <1>3, <1>5, <1>7, <1>10, <1>11, <1>12

\* A request begins with the messages of the one before, and its answer.
LEMMA RequestPrefix ==
  ASSUME NEW g \in Seq(Given), NEW a \in Answers, Distinct(a.calls), Talk(Append(g, a)),
         NEW t \in Seq(Carried(Append(g, a)))
  PROVE  IsPrefix(Append(LaidOut(g), Last(Remapped(Append(g, a)))), LaidOut(Append(g, a) \o t))
<1>0. /\ g \in Seq(Messages) /\ a \in Messages /\ a \in Proper /\ ~IsTool(a) /\ ~IsSystem(a)
      /\ Append(g, a) \in Seq(Messages) /\ t \in Seq(Silent)
      /\ Sound(Append(g, a) \o t) /\ Append(g, a) \o t \in Seq(Asked) /\ Sound(g) /\ g \in Seq(Asked)
  <2>1. /\ Given \subseteq Messages /\ Answers \subseteq Messages /\ Answers \subseteq Proper /\ Given \subseteq Asked
        /\ \A m \in Answers : ~IsTool(m) /\ ~IsSystem(m)
    BY AskedIs
  <2>2. t \in Seq(Silent) /\ Sound(Append(g, a) \o t) /\ Append(g, a) \o t \in Seq(Asked) /\ Append(g, a) \in Seq(Messages)
    BY SoundCarried, SeqSubset
  <2>3. g \in Seq(Messages) /\ g \in Seq(Asked)
    BY <2>1, SeqSubset
  <2>4. Sound(g)
    BY <2>1, <2>3, SoundAppend DEF Talk
  <2> QED
    BY <2>1, <2>2, <2>3, <2>4
<1>1. PICK h \in Seq(Messages) : h = Append(g, a)
  BY <1>0
<1>2. PICK b \in Seq(CallSet), R \in Seq(Proper) : b = CallsOf(g) /\ R = Remapped(g)
  BY <1>0, CallsType, RemapBears
<1>3. PICK x \in Proper : x = Named(b, a) /\ ~IsTool(x) /\ ~IsSystem(x)
  <2>1. Named(b, a).role = a.role
    BY DEF Named
  <2> QED
    BY <1>0, <1>2, <2>1, NamedProper DEF IsTool, IsSystem
<1>4. Remapped(h) = Append(R, x)
  BY <1>0, <1>1, <1>2, <1>3, RemapAppend
<1>5. PICK q \in Seq(Proper) : q = Append(R, x) /\ Last(q) = x
  <2>1. R \in Seq(Proper) /\ x \in Proper
    BY <1>2, <1>3
  <2> QED
    <3>1. Append(R, x) \in Seq(Proper)
      BY <2>1, AppendProperties
    <3>2. Last(Append(R, x)) = x
      BY <2>1, FrontLast
    <3> QED
      BY <3>1, <3>2
<1>6. PICK T : T = Behind(CallsOf(h), t)
  OBVIOUS
<1>7. T \in Seq(Messages) /\ Remapped(h \o t) = q \o T
  <2>1. Remapped(h \o t) = Remapped(h) \o Behind(CallsOf(h), t) /\ Behind(CallsOf(h), t) \in Seq(Messages)
    BY <1>0, RemapSilent
  <2> QED
    BY <1>4, <1>5, <1>6, <2>1
<1>8. PICK P \in Seq(Proper) : P = q \o T /\ LaidOut(h \o t) = FlatMap(Blocks(P), P) /\ Remapped(h \o t) = P
  <2>1. Remapped(h \o t) \in Seq(Proper)
    BY <1>0, <1>1, RemapBears
  <2> QED
    BY <1>7, <2>1, LaidOutIs DEF LaidOut
<1>9. T \in Seq(Proper)
  <2>1. \A m \in Silent : Named(CallsOf(h), m) \in Proper
    <3>1. Silent \subseteq Proper
      BY DEF Silent, Proper
    <3>2. CallsOf(h) \in Seq(CallSet)
      BY CallsType
    <3> QED
      BY <3>1, <3>2, NamedProper
  <2>2. DOMAIN t = 1..Len(t) /\ Len(t) \in Nat /\ \A i \in 1..Len(t) : t[i] \in Silent
    BY <1>0, LenProperties, ElementOfSeq
  <2>3. DOMAIN T = 1..Len(t) /\ \A i \in 1..Len(t) : T[i] \in Proper
    BY <1>6, <2>1, <2>2 DEF Behind
  <2>4. DOMAIN T = 1..Len(T) /\ Len(T) \in Nat
    BY <1>7, LenProperties
  <2>5. \A i \in 1..Len(T) : T[i] \in Proper
    BY <2>3, <2>4
  <2> QED
    BY <1>7, <2>4, <2>5, IsASeq
<1>10. PICK B \in Maps(Proper, Messages) : B = Blocks(P)
  BY <1>8, BlocksType
\* The blocks of the messages before the answer are those they had.
<1>11. FlatMap(B, R) = LaidOut(g)
  <2>1. LaidOut(g) = FlatMap(Blocks(R), R)
    BY <1>2, LaidOutIs DEF LaidOut
  <2>2. ASSUME NEW i \in DOMAIN R PROVE Blocks(P)[R[i]] = Blocks(R)[R[i]]
    <3>1. R[i] \in Proper /\ R \in Seq(Messages)
      <4>1. Proper \subseteq Messages
        BY DEF Proper
      <4> QED
        BY <1>2, <4>1, ElementOfSeq, LenProperties, SeqSubset
    <3>2. ASSUME NEW k \in DOMAIN R[i].calls PROVE ResultFor(P, R[i].calls[k].id) = ResultFor(R, R[i].calls[k].id)
      <4>1. \A s \in Seq(Messages) : \A n \in DOMAIN s : Range(CallsIn[s[n]]) \subseteq Range(FlatMap(CallsIn, s))
        BY CallsAre, FlatMapRange
      <4>2. CallsIn[R[i]] = R[i].calls /\ FlatMap(CallsIn, R) = CallsOf(R)
        BY <3>1, CallsAre DEF Proper
      <4>3. Range(R[i].calls) \subseteq Range(CallsOf(R))
        BY <3>1, <4>1, <4>2
      <4>4. PICK j \in DOMAIN CallsOf(R) : CallsOf(R)[j] = R[i].calls[k]
        BY <4>3 DEF Range
      <4>5. Ordered(R)
        BY <1>0, <1>2, RemapOrdered
      <4>6. R[i].calls[k].id = <<j - 1, 0>>
        BY <4>4, <4>5 DEF Ordered
      <4>7. ResultFor(Remapped(Append(g, a) \o t), <<j - 1, 0>>) = ResultFor(Remapped(g), <<j - 1, 0>>)
        BY <1>2, <4>4, ResultsKept
      <4> QED
        BY <1>1, <1>2, <1>8, <4>6, <4>7
    <3>3. ResultsIn(P, R[i]) = ResultsIn(R, R[i])
      BY <3>2 DEF ResultsIn
    <3> QED
      BY <3>1, <3>3 DEF Blocks
  <2> QED
    BY <1>10, <2>1, <2>2 DEF FlatMap
<1>12. B[x] = <<x>> \o ResultsIn(P, x) /\ ResultsIn(P, x) \in Seq(Messages)
  <2>1. ResultsIn(P, x) \in Seq(Messages)
    BY <1>3, <1>8, ResultsType
  <2> QED
    BY <1>3, <1>8, <1>10, <2>1, BlocksType
<1>13. IsPrefix(Append(FlatMap(B, R), x), FlatMap(B, Append(R, x) \o T))
  <2>1. Proper \subseteq Messages
    BY DEF Proper
  <2> QED
    BY <1>2, <1>3, <1>9, <1>10, <1>12, <2>1, PartsPrefix
<1> QED
  BY <1>1, <1>4, <1>5, <1>8, <1>10, <1>11, <1>13

-----------------------------------------------------------------------------
(* The steps of a talk.                                                    *)

LEMMA CarriedAre ==
  ASSUME NEW h, Talk(h)
  PROVE  /\ h \in Seq(Messages) /\ LastCalls(h) \subseteq CallSet
         /\ CarriedInputs(h) \subseteq Inputs /\ CarriedInputs(h) \subseteq Carried(h)
         /\ \A n \in Int : User(n) \in CarriedInputs(h)
         /\ \A c \in LastCalls(h) : Result(c) \in CarriedInputs(h)
<1>1. h \in Seq(Messages)
  BY SoundCarried
<1>2. LastCalls(h) \subseteq CallSet
  <2>1. CASE h = <<>>
    BY <2>1 DEF LastCalls
  <2>2. CASE h # <<>>
    <3>1. Last(h) \in Answers /\ LastCalls(h) = Range(Last(h).calls)
      BY <2>2, TalkSplit
    <3>2. Last(h).calls \in Seq(CallSet)
      BY <3>1 DEF Answers, Messages
    <3> QED
      BY <3>1, <3>2, ElementOfSeq, LenProperties DEF Range
  <2> QED
    BY <2>1, <2>2
<1>3. ASSUME NEW n \in Int PROVE User(n) \in Inputs /\ ~IsTool(User(n))
  BY EmptySeq DEF User, Message, NoCall, Call, Inputs, Messages, CallSet, IsTool
<1>4. ASSUME NEW c \in CallSet PROVE Result(c) \in Inputs /\ Result(c).answers = c
  BY EmptySeq DEF Result, Message, Inputs, Messages, CallSet
<1>5. Inputs \subseteq Silent /\ Inputs \subseteq Asked
  BY AskedIs
<1> QED
  BY <1>1, <1>2, <1>3, <1>4, <1>5 DEF CarriedInputs, Carried

\* The driver's variables and the history are as they were, and the request has its messages.
LEMMA StreamTalks ==
  ASSUME TalkInv, stream # NoStream, stream.pc \notin {"flush", "done"}, stream'.pc \notin {"flush", "done"},
         UNCHANGED << history, pending, turn, calls, made, sent >>,
         DOMAIN stream \subseteq DOMAIN stream', \A f \in {"who", "inputs", "messages"} : stream'[f] = stream[f]
  PROVE  TalkInv'
<1>1. HistoryInv' /\ TurnInv'
  BY DEF TalkInv, HistoryInv, TurnInv
<1>2. StreamInv'
  BY DEF TalkInv, StreamInv, OfChat, OfJudge, Is, Asking
<1> QED
  BY <1>1, <1>2 DEF TalkInv

\* The request of a chat is over, or another's begins: the driver goes on without one.
LEMMA TurnTalks ==
  ASSUME TalkInv, TurnInv', UNCHANGED << history, sent >>,
         stream' = NoStream \/ (UNCHANGED stream /\ turn \notin {"call", "judge"})
         \/ ({"pc", "who", "inputs", "messages"} \subseteq DOMAIN stream' /\ stream'.who = "judge" /\ stream'.pc = "auth" /\ turn' = "judge")
  PROVE  TalkInv'
<1>1. HistoryInv'
  BY DEF TalkInv, HistoryInv
<1>2. StreamInv'
  BY DEF TalkInv, StreamInv, OfChat, OfJudge, Is, NoStream
<1> QED
  BY <1>1, <1>2 DEF TalkInv

LEMMA StreamStepTalks ==
  ASSUME TalkInv, Authorize \/ Authorized \/ Opened \/ Delta \/ BreaksAndRetries \/ Backoff
  PROVE  TalkInv'
<1>1. /\ stream # NoStream /\ stream.pc \notin {"flush", "done"}
      /\ {"pc", "who", "inputs", "messages"} \subseteq DOMAIN stream
      /\ UNCHANGED << history, pending, turn, calls, made, sent >>
  <2>1. stream # NoStream /\ stream.pc \notin {"flush", "done"}
    BY DEF Authorize, Authorized, Opened, Delta, BreaksAndRetries, BreaksFor, Breaks, Backoff, Is, NoStream
  <2>2. {"pc", "who", "inputs", "messages"} \subseteq DOMAIN stream
    BY <2>1 DEF TalkInv, StreamInv
  <2> QED
    BY <2>1, <2>2 DEF Authorize, Authorized, Opened, Delta, BreaksAndRetries, Backoff, Step
<1>2. CASE Authorize \/ Authorized
  <2>1. \E pc \in {"tokens", "open"} : stream' = [stream EXCEPT !.pc = pc]
    BY <1>2 DEF Authorize, Authorized
  <2> QED
    BY <1>1, <2>1, StreamTalks
<1>3. CASE Opened
  <2>1. stream' = Changed([pc |-> "stream", deltas |-> 0])
    BY <1>3 DEF Opened, Step, Changed
  <2> QED
    BY <1>1, <2>1, StreamTalks DEF Changed
<1>4. CASE Delta
  <2>1. PICK kind \in {"text", "reasoning"} :
          stream' = Changed([deltas |-> stream.deltas + 1, emitted |-> stream.emitted \/ Emits(kind),
                     shown |-> Append(stream.shown, stream.attempt)])
    BY <1>4 DEF Delta, Step, Changed
  <2>2. /\ DOMAIN stream \subseteq DOMAIN stream' /\ stream'.pc = stream.pc
        /\ \A f \in {"who", "inputs", "messages"} : stream'[f] = stream[f]
    BY <1>1, <2>1 DEF Changed
  <2> QED
    BY <1>1, <2>2, StreamTalks
<1>5. CASE BreaksAndRetries
  <2>1. stream' = Changed([pc |-> "backoff"])
    BY <1>5 DEF BreaksAndRetries, Step, Changed
  <2> QED
    BY <1>1, <2>1, StreamTalks DEF Changed
<1>6. CASE Backoff
  <2>1. stream' = Changed([pc |-> "open", attempt |-> stream.attempt + 1])
    BY <1>6 DEF Backoff, Step, Changed
  <2> QED
    BY <1>1, <2>1, StreamTalks DEF Changed
<1> QED
  BY <1>2, <1>3, <1>4, <1>5, <1>6

\* An answer's calls have identifiers of their own.
LEMMA NewCallsAre ==
  ASSUME made \in Nat, NEW count \in 0..MaxCalls, NEW unique \in BOOLEAN
  PROVE  /\ Assistant(made + 1, NewCalls(count, unique)) \in Answers
         /\ Distinct(Assistant(made + 1, NewCalls(count, unique)).calls)
<1>1. count \in Nat /\ made + 1 \in Int
  BY CallsAssumption
<1>2. PICK y : y = NewCalls(count, unique)
  OBVIOUS
<1>3. DOMAIN y = 1..count
  BY <1>2 DEF NewCalls
<1>4. \A k \in 1..count : y[k] = Call(<< -1, IF unique THEN made + 1 + k ELSE k >>, made + 1 + k)
  BY <1>2 DEF NewCalls
<1>5. ASSUME NEW k \in 1..count PROVE y[k] \in CallSet
  <2>1. k \in Int /\ made + 1 + k \in Int /\ -1 \in Int
    BY <1>1
  <2>2. \A j \in Int : << -1, j >> \in Seq(Int)
    OBVIOUS
  <2>3. (IF unique THEN made + 1 + k ELSE k) \in Int
    BY <2>1
  <2>4. PICK v \in Seq(Int) : v = << -1, IF unique THEN made + 1 + k ELSE k >>
    BY <2>2, <2>3
  <2>5. y[k] = [id |-> v, n |-> made + 1 + k]
    BY <1>4, <2>4 DEF Call
  <2> QED
    BY <2>1, <2>5 DEF CallSet
<1>6. y \in Seq(CallSet)
  <2>1. y = [k \in 1..count |-> y[k]]
    BY <1>2, <1>3 DEF NewCalls
  <2> QED
    BY <1>1, <1>5, <2>1
<1>7. ASSUME NEW j \in 1..count, NEW k \in 1..count, y[j].id = y[k].id PROVE j = k
  <2>1. PICK p, q : p = (IF unique THEN made + 1 + j ELSE j) /\ q = (IF unique THEN made + 1 + k ELSE k)
    OBVIOUS
  <2>3. << -1, p >> = << -1, q >>
    <3>1. y[j] = Call(<< -1, p >>, made + 1 + j) /\ y[k] = Call(<< -1, q >>, made + 1 + k)
      BY <1>4, <2>1
    <3>2. \A v, n : Call(v, n).id = v
      BY DEF Call
    <3> QED
      BY <1>7, <3>1, <3>2
  <2>4. p = q
    BY <2>3
  <2>2. j \in Int /\ k \in Int
    BY <1>1
  <2> QED
    BY <1>1, <2>1, <2>2, <2>4
<1>8. Distinct(y)
  BY <1>3, <1>7 DEF Distinct
<1>9. NoCall \in CallSet
  <2>1. <<>> \in Seq(Int)
    BY EmptySeq
  <2> QED
    BY <2>1 DEF NoCall, Call, CallSet
<1>10. /\ Assistant(made + 1, y).calls = y
       /\ Assistant(made + 1, y) \in Answers
  BY <1>1, <1>6, <1>9 DEF Assistant, Message, Answers, Messages
<1> QED
  BY <1>2, <1>8, <1>10

LEMMA EndsTalks == ASSUME TalkInv, Ends PROVE TalkInv'
<1>1. PICK count \in 0..MaxCalls, unique \in BOOLEAN :
        stream' = Changed([pc |-> "flush", answer |-> Assistant(made + 1, NewCalls(count, unique))])
  BY DEF Ends, Step, Changed
<1>2. UNCHANGED << history, pending, turn, calls, made, sent >>
  BY DEF Ends, Step
<1>3. PICK a \in Answers : a = Assistant(made + 1, NewCalls(count, unique)) /\ Distinct(a.calls)
  BY NewCallsAre DEF TalkInv, TurnInv
<1>4. OfChat /\ {"pc", "who", "inputs", "messages"} \subseteq DOMAIN stream /\ stream.pc = "stream" /\ ~Is("done")
  BY DEF Ends, OfChat, Is, NoStream, TalkInv, StreamInv
<1>5. /\ DOMAIN stream' = {"pc", "answer"} \cup DOMAIN stream /\ stream'.pc = "flush" /\ stream'.answer = a
      /\ \A f \in {"who", "inputs", "messages"} : stream'[f] = stream[f]
  BY <1>1, <1>3, <1>4 DEF Changed
<1>6. HistoryInv' /\ TurnInv'
  BY <1>2 DEF TalkInv, HistoryInv, TurnInv
<1>7. StreamInv'
  <2>1. Asking /\ turn = "call" /\ pending = <<>>
    BY <1>4 DEF TalkInv, StreamInv
  <2>2. Asking' /\ ~Is("done")'
    BY <1>2, <1>3, <1>5, <2>1 DEF Asking, Is
  <2>3. OfChat' /\ {"pc", "who", "inputs", "messages"} \subseteq DOMAIN stream'
    BY <1>4, <1>5 DEF OfChat, NoStream
  <2>4. ~OfJudge'
    BY <2>3 DEF OfChat, OfJudge
  <2> QED
    BY <1>2, <2>1, <2>2, <2>3, <2>4 DEF StreamInv
<1> QED
  BY <1>6, <1>7 DEF TalkInv

\* The history that a recorded answer leaves.
LEMMA RecordedIs ==
  ASSUME TalkInv, Flush
  PROVE  /\ history' \in Seq(Given) /\ Sound(history') /\ history' # <<>>
         /\ Front(history') = history \o stream.inputs /\ Last(history') = stream.answer
         /\ sent' = Append(LaidOut(history \o stream.inputs), Last(Remapped(history')))
         /\ stream.answer \in Answers /\ Distinct(stream.answer.calls)
<1>1. PICK g \in Seq(Given), t \in Seq(CarriedInputs(history)), a \in Answers :
        /\ g = history /\ t = stream.inputs /\ a = stream.answer /\ Distinct(a.calls) /\ Talk(g)
        /\ stream.messages = LaidOut(g \o (<<System>> \o t))
  <2>1. Is("flush") /\ ~Is("done")
    BY DEF Flush, Is
  <2>2. Asking /\ Talk(history)
    BY <2>1 DEF TalkInv, StreamInv, HistoryInv
  <2> QED
    BY <2>1, <2>2 DEF Asking, Talk
<1>2. /\ t \in Seq(Carried(g)) /\ t \in Seq(Given) /\ a \in Given /\ a \in Messages /\ ~IsTool(a)
      /\ Given \subseteq Messages
  <2>1. CarriedInputs(g) \subseteq Carried(g) /\ CarriedInputs(g) \subseteq Given
    BY <1>1, CarriedAre, AskedIs
  <2> QED
    BY <1>1, <2>1, SeqSubset, AskedIs
<1>3. PICK q \in Seq(Given) : q = g \o t
  BY <1>2, ConcatProperties
<1>4. Sound(q) /\ stream.messages = LaidOut(q)
  <2>1. Sound(g \o t) /\ LaidOut(g \o (<<System>> \o t)) = LaidOut(g \o t)
    BY <1>1, <1>2, SoundCarried, SystemHoisted
  <2> QED
    BY <1>1, <1>3, <2>1
<1>5. history' = Append(q, a)
  <2>1. history' = (g \o t) \o << a >>
    BY <1>1 DEF Flush, Recorded
  <2> QED
    BY <1>2, <1>3, <2>1, AppendIsConcat
<1>6. history' \in Seq(Given) /\ Sound(history')
  <2>1. q \in Seq(Messages) /\ a \in Messages
    BY <1>2, SeqSubset
  <2>2. Sound(Append(q, a))
    BY <1>2, <1>4, <2>1, SoundAppend
  <2> QED
    BY <1>2, <1>5, <2>2, AppendProperties
<1>7. Last(history') = a /\ Front(history') = q /\ history' # <<>>
  BY <1>2, <1>5, FrontLast
<1>8. sent' = Append(stream.messages, Last(Remapped(history')))
  BY DEF Flush
<1> QED
  BY <1>1, <1>3, <1>4, <1>6, <1>7, <1>8

LEMMA FlushTalks == ASSUME TalkInv, Flush PROVE TalkInv'
<1>1. HistoryInv'
  BY RecordedIs DEF HistoryInv, Talk
<1>2. /\ UNCHANGED << pending, turn, calls >> /\ stream' = [stream EXCEPT !.pc = "done"]
      /\ made' = made + 1 + Len(stream.answer.calls)
  BY DEF Flush
<1>3. /\ OfChat /\ turn = "call" /\ pending = <<>> /\ "answer" \in DOMAIN stream
      /\ {"pc", "who", "inputs", "messages"} \subseteq DOMAIN stream
  <2>1. Is("flush") /\ ~Is("done") /\ stream # NoStream
    BY DEF Flush, Is, NoStream
  <2> QED
    BY <2>1 DEF TalkInv, StreamInv, Asking
<1>4. PICK cs \in Seq(CallSet) : cs = stream.answer.calls
  BY RecordedIs DEF Answers, Messages
<1>5. LastCalls(history') = Range(cs) /\ cs \in Seq(LastCalls(history'))
  <2>1. LastCalls(history') = Range(cs)
    BY <1>4, RecordedIs DEF LastCalls
  <2>2. \A i \in 1..Len(cs) : cs[i] \in Range(cs)
    BY <1>4, LenProperties DEF Range
  <2>3. cs \in Seq(Range(cs))
    BY <1>4, <2>2, LenProperties, IsASeq
  <2> QED
    BY <2>1, <2>3
<1>6. TurnInv'
  <2>1. calls = <<>> /\ turn \notin {"batch", "judge"} /\ made \in Nat
    BY <1>3 DEF TalkInv, TurnInv
  <2>2. Len(cs) \in Nat
    BY LenProperties
  <2>3. made' \in Nat
    BY <1>2, <1>4, <2>1, <2>2
  <2>4. pending' = <<>> /\ calls' = <<>> /\ turn' \notin {"batch", "judge"}
    BY <1>2, <1>3, <2>1
  <2> QED
    BY <2>3, <2>4, EmptySeq DEF TurnInv
<1>7. StreamInv'
  <2>1. /\ DOMAIN stream' = DOMAIN stream /\ stream'.pc = "done" /\ stream'.who = "chat" /\ stream'.answer.calls = cs
        /\ stream' # NoStream
    BY <1>2, <1>3, <1>4 DEF OfChat, NoStream
  <2>2. OfChat' /\ Is("done")' /\ Recording' /\ ~OfJudge'
    BY <1>3, <1>5, <2>1 DEF OfChat, OfJudge, Is, Recording
  <2> QED
    BY <1>2, <1>3, <2>1, <2>2 DEF StreamInv
<1> QED
  BY <1>1, <1>6, <1>7 DEF TalkInv

LEMMA RunTalks == ASSUME TalkInv, Run PROVE TalkInv'
<1>1. /\ turn' = "call" /\ pending' = <<>> /\ UNCHANGED << history, calls, made, sent >> /\ turn = "run"
      /\ Ask("chat", pending, Request(history, << System >> \o pending), 0)
  BY DEF Run
<1>2. Request(history, << System >> \o pending) = LaidOut(history \o (<< System >> \o pending))
  BY DEF Request, LaidOut
<1>3. HistoryInv' /\ TurnInv'
  BY <1>1, EmptySeq DEF TalkInv, HistoryInv, TurnInv
<1>4. /\ stream'.pc = "auth" /\ stream'.inputs = pending /\ stream'.messages = LaidOut(history \o (<< System >> \o pending))
      /\ stream'.who = "chat" /\ {"pc", "who", "inputs", "messages"} \subseteq DOMAIN stream'
  BY <1>1, <1>2 DEF Ask
<1>5. Asking' /\ ~Is("done")' /\ ~Is("flush")'
  BY <1>1, <1>4 DEF Asking, Is, TalkInv, TurnInv
<1>6. StreamInv'
  BY <1>1, <1>4, <1>5 DEF StreamInv, OfJudge
<1> QED
  BY <1>3, <1>6 DEF TalkInv

\* What an input adds to those that wait.
LEMMA PendingTalks ==
  ASSUME TalkInv, turn' \in {"run", "save", "batch"}, turn \notin {"call", "judge"}, calls' \in Seq(LastCalls(history)),
         calls' # <<>> <=> turn' = "batch", made' \in Nat,
         NEW m \in CarriedInputs(history), pending' = Append(pending, m), UNCHANGED << history, stream, sent >>
  PROVE  TalkInv'
<1>1. TurnInv'
  <2>1. pending' \in Seq(CarriedInputs(history))
    BY AppendProperties DEF TalkInv, TurnInv
  <2> QED
    BY <2>1 DEF TurnInv
<1> QED
  BY <1>1, TurnTalks

LEMMA PromptTalks == ASSUME TalkInv, Prompt PROVE TalkInv'
<1>1. /\ turn = "idle" /\ turn' = "run" /\ made' = made + 1 /\ pending' = Append(pending, User(made + 1))
      /\ UNCHANGED << history, calls, stream, sent >>
  BY DEF Prompt
<1>2. /\ Talk(history) /\ made + 1 \in Nat /\ made + 1 \in Int /\ calls = <<>> /\ calls \in Seq(LastCalls(history))
  BY <1>1 DEF TalkInv, HistoryInv, TurnInv
<1>3. PICK m \in CarriedInputs(history) : m = User(made + 1)
  BY <1>2, CarriedAre
<1> QED
  BY <1>1, <1>2, <1>3, PendingTalks

LEMMA SettleTalks == ASSUME TalkInv, Settle PROVE TalkInv'
<1>1. /\ turn = "batch" /\ pending' = Append(pending, Result(Head(calls))) /\ calls' = Tail(calls)
      /\ turn' = (IF Len(calls) = 1 THEN "save" ELSE "batch") /\ UNCHANGED << history, stream, made, sent >>
  BY DEF Settle
<1>2. calls \in Seq(LastCalls(history)) /\ calls # <<>> /\ Talk(history) /\ made \in Nat
  BY <1>1 DEF TalkInv, HistoryInv, TurnInv
<1>3. /\ Head(calls) \in LastCalls(history) /\ Tail(calls) \in Seq(LastCalls(history))
      /\ Len(Tail(calls)) = Len(calls) - 1 /\ Len(calls) \in Nat
  BY <1>2, HeadTailProperties, LenProperties
<1>4. Tail(calls) = <<>> <=> Len(calls) = 1
  <2>1. Tail(calls) = <<>> <=> Len(Tail(calls)) = 0
    BY <1>3, EmptySeq
  <2> QED
    BY <1>3, <2>1
<1>5. PICK m \in CarriedInputs(history) : m = Result(Head(calls))
  BY <1>2, <1>3, CarriedAre
<1> QED
  BY <1>1, <1>2, <1>3, <1>4, <1>5, PendingTalks

\* An answer arrives, or a request ends without.
LEMMA AnsweredTalks == ASSUME TalkInv, Answered PROVE TalkInv'
<1>1. /\ stream' = NoStream /\ calls' \in {stream.answer.calls, <<>>}
      /\ turn' = (IF calls' = << >> THEN "idle" ELSE "batch") /\ UNCHANGED << history, pending, made, sent >>
  BY DEF Answered
<1>2. stream.answer.calls \in Seq(LastCalls(history))
  BY DEF Answered, TalkInv, StreamInv, Recording
<1>3. TurnInv'
  BY <1>1, <1>2, EmptySeq DEF TalkInv, TurnInv
<1> QED
  BY <1>1, <1>3, TurnTalks

LEMMA EndedTalks == ASSUME TalkInv, CallFails \/ Dropped PROVE TalkInv'
<1>1. OfChat /\ ~Is("done") /\ stream' = NoStream /\ turn' = "idle" /\ UNCHANGED << history, calls, made, sent >>
  BY DEF CallFails, Fails, Dropped, BreaksFor, Breaks, Is
<1>2. turn = "call" /\ pending = <<>> /\ stream.inputs \in Seq(CarriedInputs(history)) /\ calls = <<>>
  BY <1>1 DEF TalkInv, TurnInv, StreamInv, Asking
<1>3. pending' \in {pending, stream.inputs \o pending}
  BY DEF CallFails, Fails, Dropped
<1>4. pending' \in Seq(CarriedInputs(history))
  <2>1. stream.inputs \o <<>> = stream.inputs
    BY <1>2, ConcatEmptySeq
  <2> QED
    BY <1>2, <1>3, <2>1, EmptySeq
<1>5. TurnInv'
  BY <1>1, <1>2, <1>4 DEF TalkInv, TurnInv
<1> QED
  BY <1>1, <1>5, TurnTalks

\* The judge has messages of its own, and leaves the driver where it was.
LEMMA JudgeTalks == ASSUME TalkInv, Judge \/ Scold \/ Judged \/ JudgeDropped PROVE TalkInv'
<1>1. CASE Judge
  <2>1. /\ stream'.pc = "auth" /\ stream'.who = "judge" /\ {"pc", "who", "inputs", "messages"} \subseteq DOMAIN stream'
        /\ turn = "batch" /\ turn' = "judge" /\ UNCHANGED << history, pending, calls, made, sent >>
    BY <1>1 DEF Judge, Ask
  <2>2. TurnInv'
    BY <2>1 DEF TalkInv, TurnInv
  <2> QED
    BY <2>1, <2>2, TurnTalks
<1>2. CASE Scold
  <2>1. /\ stream # NoStream /\ stream.who = "judge" /\ turn = "judge"
        /\ UNCHANGED << history, pending, turn, calls, made, sent >>
    BY <1>2 DEF Scold, OfJudge, TalkInv, StreamInv
  <2>2. {"pc", "who", "inputs", "messages"} \subseteq DOMAIN stream
    BY <2>1 DEF TalkInv, StreamInv
  <2>3. /\ stream'.pc = "auth" /\ stream'.who = "judge" /\ {"pc", "who", "inputs", "messages"} \subseteq DOMAIN stream'
    BY <1>2, <2>1, <2>2 DEF Scold
  <2>4. TurnInv'
    BY <2>1 DEF TalkInv, TurnInv
  <2> QED
    BY <2>1, <2>3, <2>4, TurnTalks
<1>3. CASE Judged \/ JudgeDropped
  <2>1. OfJudge /\ stream' = NoStream /\ turn' = "batch" /\ UNCHANGED << history, pending, calls, made, sent >>
    BY <1>3 DEF Judged, JudgeDropped, JudgeLeaves
  <2>2. turn = "judge"
    BY <2>1 DEF TalkInv, StreamInv
  <2>3. TurnInv'
    BY <2>1, <2>2 DEF TalkInv, TurnInv
  <2> QED
    BY <2>1, <2>3, TurnTalks
<1> QED
  BY <1>1, <1>2, <1>3

LEMMA TalkStarts == Init => TalkInv
<1> SUFFICES ASSUME Init PROVE TalkInv
  OBVIOUS
<1>1. history = <<>> /\ pending = <<>> /\ turn = "idle" /\ calls = <<>> /\ stream = NoStream /\ made = 0 /\ sent = <<>>
  BY DEF Init, CallsInit
<1>2. Sound(<<>>)
  BY DEF Sound
<1>3. HistoryInv /\ TurnInv
  BY <1>1, <1>2, EmptySeq DEF HistoryInv, Talk, TurnInv
<1>4. StreamInv
  BY <1>1 DEF StreamInv, Is, OfChat, OfJudge, NoStream
<1> QED
  BY <1>3, <1>4 DEF TalkInv

LEMMA TalkKeeps == ASSUME TalkInv, [Next]_vars PROVE TalkInv'
<1>1. CASE UNCHANGED << history, pending, turn, calls, stream, made, sent >>
  <2>1. HistoryInv' /\ TurnInv'
    BY <1>1 DEF TalkInv, HistoryInv, TurnInv
  <2>2. StreamInv'
    BY <1>1 DEF TalkInv, StreamInv, OfChat, OfJudge, Is, Asking, Recording
  <2> QED
    BY <2>1, <2>2 DEF TalkInv
<1>2. CASE EndTurn \/ Save
  <2>1. /\ UNCHANGED << history, pending, calls, stream, made, sent >>
        /\ turn \in {"run", "save"} /\ turn' \in {"idle", "run"}
    BY <1>2 DEF EndTurn, Save
  <2>2. TurnInv'
    BY <2>1 DEF TalkInv, TurnInv
  <2> QED
    BY <2>1, <2>2, TurnTalks
<1>3. CASE CallsNext
  <2>1. CASE Interrupt \/ Authorizing \/ OthersRefresh \/ Expires
    BY <1>1, <2>1 DEF Interrupt, Authorizing, OthersRefresh, Expires, callVars
  <2> QED
    BY <1>2, <1>3, <2>1, RunTalks, StreamStepTalks, EndsTalks, FlushTalks, AnsweredTalks, EndedTalks, JudgeTalks DEF CallsNext
<1>4. CASE Selects \/ CallsServer \/ Meanwhile \/ UNCHANGED vars
  BY <1>1, <1>4 DEF Selects, CallsServer, Meanwhile, vars, callVars
<1> QED
  BY <1>3, <1>4, PromptTalks, SettleTalks, JudgeTalks DEF Next, Talks, HasResult

\* However providers name calls, and whatever was interrupted, lost or retried: in each
\* request every call has an identifier of its own and is followed by its own results, and
\* whatever was recorded or is carried is in it (remap_tool_call_ids, normalize_tool_results).
THEOREM RequestsPaired == Spec => []RequestsArePaired
<1>1. TalkInv => RequestsArePaired
  <2> SUFFICES ASSUME TalkInv, OfChat, ~Is("done")
               PROVE  /\ Paired(stream.messages)
                      /\ \A m \in Range(history \o stream.inputs) : \E k \in Range(stream.messages) : k.role = m.role /\ k.n = m.n
    BY DEF RequestsArePaired
  <2>1. PICK t \in Seq(CarriedInputs(history)) :
          t = stream.inputs /\ stream.messages = LaidOut(history \o (<<System>> \o t)) /\ Talk(history)
    BY DEF TalkInv, HistoryInv, StreamInv, Asking
  <2>2. CarriedInputs(history) \subseteq Carried(history) /\ CarriedInputs(history) \subseteq Given
        /\ t \in Seq(Carried(history)) /\ t \in Seq(Given) /\ history \in Seq(Given) /\ \A m \in Given : ~IsSystem(m)
    <3>1. CarriedInputs(history) \subseteq Carried(history) /\ CarriedInputs(history) \subseteq Given
      BY <2>1, CarriedAre, AskedIs
    <3> QED
      BY <2>1, <3>1, SeqSubset, AskedIs DEF Talk
  <2>3. PICK s \in Seq(Given) : s = history \o t
    BY <2>2, ConcatProperties
  <2>4. stream.messages = LaidOut(s) /\ Sound(s) /\ s \in Seq(Asked)
    BY <2>1, <2>2, <2>3, SystemHoisted, SoundCarried
  <2>5. /\ Paired(LaidOut(s))
        /\ \A i \in DOMAIN s : ~IsSystem(s[i]) => \E k \in Range(LaidOut(s)) : k.role = s[i].role /\ k.n = s[i].n
    BY <2>4, RequestPaired
  <2>6. \A i \in DOMAIN s : ~IsSystem(s[i])
    BY <2>2, <2>3, ElementOfSeq, LenProperties
  <2>7. \A m \in Range(s) : \E k \in Range(LaidOut(s)) : k.role = m.role /\ k.n = m.n
    BY <2>5, <2>6 DEF Range
  <2> QED
    BY <2>1, <2>3, <2>4, <2>5, <2>7
<1> QED
  BY <1>1, TalkStarts, TalkKeeps, PTL DEF Spec

\* A request starts with the messages of the last one that was answered, and its answer,
\* identifier by identifier, whatever failed or was interrupted since (ChatSession::run).
THEOREM PrefixKept == Spec => PrefixIsKept
<1>1. TalkInv => [Run => IsPrefix(sent, stream'.messages)]_callVars
  <2> SUFFICES ASSUME TalkInv, Run PROVE IsPrefix(sent, stream'.messages)
    OBVIOUS
  <2>1. PICK t \in Seq(CarriedInputs(history)) :
          t = pending /\ stream'.messages = LaidOut(history \o (<<System>> \o t)) /\ Talk(history)
    <3>1. stream'.messages = LaidOut(history \o (<<System>> \o pending))
      BY DEF Run, Ask, Request, LaidOut
    <3> QED
      BY <3>1 DEF TalkInv, HistoryInv, TurnInv
  <2>2. t \in Seq(Carried(history)) /\ stream'.messages = LaidOut(history \o t)
    <3>1. CarriedInputs(history) \subseteq Carried(history)
      BY <2>1, CarriedAre
    <3>2. t \in Seq(Carried(history))
      BY <3>1, SeqSubset
    <3> QED
      BY <2>1, <3>2, SystemHoisted
  <2>3. CASE history = <<>>
    <3>1. sent = <<>>
      BY <2>3 DEF TalkInv, HistoryInv
    <3>2. LaidOut(history \o t) \in Seq(Messages)
      BY <2>1, <2>2, SoundCarried, RequestPaired
    <3> QED
      BY <2>2, <3>1, <3>2, EmptySeq, SubSeqProperties DEF IsPrefix
  <2>4. CASE history # <<>>
    <3>1. sent = Append(LaidOut(Front(history)), Last(Remapped(history)))
      BY <2>4 DEF TalkInv, HistoryInv
    <3>2. PICK g \in Seq(Given), a \in Answers : g = Front(history) /\ history = Append(g, a) /\ Distinct(a.calls)
      BY <2>1, <2>4, TalkSplit
    <3>3. IsPrefix(Append(LaidOut(g), Last(Remapped(Append(g, a)))), LaidOut(Append(g, a) \o t))
      BY <2>1, <2>2, <3>2, RequestPrefix
    <3> QED
      BY <2>2, <3>1, <3>2, <3>3
  <2> QED
    BY <2>3, <2>4
<1> QED
  BY <1>1, TalkStarts, TalkKeeps, PTL DEF Spec, PrefixIsKept
=============================================================================
