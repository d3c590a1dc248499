---------------------------- MODULE FolderPromise ----------------------------
(***************************************************************************)
(* What a folder download promises the member that asks for it             *)
(* (skyffla-transport/src/lib.rs, receive_directory_with_progress): the    *)
(* target path appears in one step with everything in it, or not at all;   *)
(* every attempt has one outcome, and has it in the end; what is saved     *)
(* stays.                                                                  *)
(***************************************************************************)
CONSTANTS
  Receiver,   \* the members that download the folder
  Folder,     \* all that the folder is to hold
  NoFolder    \* nothing is at the target path

VARIABLES
  outcome,    \* per receiver: of its latest attempt
  target      \* per receiver: what is at the target path

promiseVars == <<outcome, target>>

PromiseInit ==
  /\ outcome = [r \in Receiver |-> "none"]
  /\ target = [r \in Receiver |-> NoFolder]

Ask(r) ==
  /\ outcome[r] \in {"none", "failed"}
  /\ outcome' = [outcome EXCEPT ![r] = "pending"]
  /\ UNCHANGED target

Save(r) ==
  /\ outcome[r] = "pending"
  /\ outcome' = [outcome EXCEPT ![r] = "saved"]
  /\ target' = [target EXCEPT ![r] = Folder]

Fail(r) ==
  /\ outcome[r] = "pending"
  /\ outcome' = [outcome EXCEPT ![r] = "failed"]
  /\ UNCHANGED target

PromiseNext == \E r \in Receiver : Ask(r) \/ Save(r) \/ Fail(r)

PromiseSafety == PromiseInit /\ [][PromiseNext]_promiseVars

Promise ==
  /\ PromiseSafety
  /\ \A r \in Receiver : WF_promiseVars(Save(r) \/ Fail(r))
=============================================================================
