------------------------------ MODULE Desktop ------------------------------
(***************************************************************************)
(* The desktop's life with one session (frances: app.rs, frances-session:  *)
(* store.rs and runtime/mod.rs): the database is opened and migrated, the  *)
(* hub loads it, the window and the agent use both until the process ends  *)
(* in whatever state it is in, and a process of any version may open the   *)
(* same database again.                                                    *)
(***************************************************************************)
EXTENDS Migrations, EntityHub, PermissionSlot

VARIABLE running  \* start_with_io has opened the hub

vars == <<migrationVars, hubVars, slotVars, running, left>>

Init == BudgetsGiven /\ MigrationInit /\ HubInit /\ SlotInit /\ running = FALSE

Booting == ~running /\ Migrate /\ UNCHANGED <<hubVars, slotVars, running>>

StartRuntime ==
  /\ boot = "ready" /\ ~running
  /\ running' = TRUE /\ Open
  /\ UNCHANGED <<migrationVars, slotVars, left>>

Publishing == running /\ Produce /\ UNCHANGED <<migrationVars, slotVars, running>>
Showing == running /\ Frontend /\ UNCHANGED <<migrationVars, slotVars, running>>
Permitting == running /\ Permit /\ UNCHANGED <<migrationVars, hubVars, running>>

\* Requests and prompts die with the process; those who ask are gone.
End ==
  /\ boot # "down" /\ Spend("ends")
  /\ running' = FALSE /\ MigrationsEnd
  /\ asks' = [n \in 1..MaxAsks |-> IF asks[n] = "open" THEN "gone" ELSE asks[n]]
  /\ requests' = <<>> /\ slot' = 0 /\ prompts' = <<>> /\ prompt' = 0 /\ answers' = <<>>
  /\ UNCHANGED <<hubVars, answering, hasty>>

Next == Booting \/ StartRuntime \/ Publishing \/ Showing \/ Permitting \/ End

Spec == Init /\ [][Next]_vars
=============================================================================
