---------------------------- MODULE DurableStore ----------------------------
(***************************************************************************)
(* What the durability core promises its callers, with no log, no          *)
(* memtable, no flush and no page store in sight: a set of committed       *)
(* records that only grows, a set of visible ones that grows with every    *)
(* write and is emptied only by the end of the process, and a restart      *)
(* that makes everything committed visible again.                          *)
(***************************************************************************)
CONSTANT Records

VARIABLES store, committed, visible

storeVars == <<store, committed, visible>>

StoreInit ==
  /\ store = "open"
  /\ committed = {}
  /\ visible = {}

\* The record survives any later crash of the process.
Commit(r) ==
  /\ store = "open"
  /\ r \notin committed
  /\ committed' = committed \cup {r}
  /\ UNCHANGED <<store, visible>>

\* Readers see it.
Show(r) ==
  /\ store = "open"
  /\ r \in committed
  /\ visible' = visible \cup {r}
  /\ UNCHANGED <<store, committed>>

Crash ==
  /\ store = "open"
  /\ store' = "closed"
  /\ visible' = {}
  /\ UNCHANGED committed

Restart ==
  /\ store = "closed"
  /\ store' = "open"
  /\ visible' = committed
  /\ UNCHANGED committed

StoreNext ==
  \/ \E r \in Records : Commit(r) \/ Show(r)
  \/ Crash
  \/ Restart

StoreSpec == StoreInit /\ [][StoreNext]_storeVars
=============================================================================
