----------------------------- MODULE McpConfig -----------------------------
(***************************************************************************)
(* The MCP servers a session may select: what McpJsonProvider makes of the *)
(* entries of an mcpServers file, and what Config::resolve makes of a      *)
(* selection.  An entry is the record of what decides about it: type and   *)
(* place as written, None when absent, and the fields command, url and     *)
(* args, sane or not.                                                      *)
(***************************************************************************)
EXTENDS Integers, FiniteSets

CONSTANTS Entries,      \* name -> entry of the JSON file
          Presets       \* name -> servers

None == "none"
Skipped == "skipped"

HasField(entry, field) == field \in entry.fields

(* adapt's transport type: the one written, or the one the fields tell. *)
TransportType(entry) ==
  IF entry.type # None THEN entry.type
  ELSE IF HasField(entry, "command") /\ ~HasField(entry, "url") THEN "stdio"
  ELSE IF HasField(entry, "url") /\ ~HasField(entry, "command") THEN "http"
  ELSE Skipped

(* Keys of the other transport are ignored; the transport's own must be there and decode. *)
Needed(kind) == IF kind = "http" THEN "url" ELSE "command"

Adapt(entry) ==
  LET type == TransportType(entry)
      kind == CASE type = "http" -> "http"
                [] type = "stdio" /\ entry.place \in {None, "local"} -> "local-stdio"
                [] type = "stdio" /\ entry.place = "remote" -> "stdio"
                [] OTHER -> Skipped
  IN IF kind # Skipped /\ HasField(entry, Needed(kind)) /\ ~entry.malformed THEN kind ELSE Skipped

(* McpJsonProvider::read: a bad entry is skipped, and so is one whose own selection would fail. *)
Kind(name) == Adapt(Entries[name])
Configured == {name \in DOMAIN Entries : Kind(name) # Skipped /\ Entries[name].named}

Unresolved == {"unresolved"}

(* Config::resolve: the union of the presets' servers and the servers, or an error. *)
Resolve(selection) ==
  LET names == selection.servers \cup UNION {Presets[p] : p \in selection.presets \cap DOMAIN Presets}
  IN IF selection.presets \subseteq DOMAIN Presets /\ names \subseteq Configured THEN names ELSE Unresolved
=============================================================================
