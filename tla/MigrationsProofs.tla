-------------------------- MODULE MigrationsProofs --------------------------
(***************************************************************************)
(* Theorems about Migrations, for any number of replicas and files, any    *)
(* rebuilds and conflicts among them, and any crashes.                     *)
(***************************************************************************)
EXTENDS Migrations, TLAPS

\* Nothing has happened yet.
LEMMA InitInv == Init => Inv
BY MigrationsAssumption
DEF Init, Inv, TypeOK, InOrder, ReplicaInv, RowsInv, Behind, Versions

\* The case of ApplyMigration in which the file takes effect.
Takes(r) ==
  /\ inSchema' = inSchema \cup {next[r]}
  /\ rows' = IF next[r] \in Rebuilds THEN 0 ELSE rows
  /\ pc' = [pc EXCEPT ![r] = "record"]
  /\ UNCHANGED <<applied, next>>

\* Every step of a replica keeps the types.
LEMMA NextType == Inv /\ [Next]_vars => TypeOK'
<1> SUFFICES ASSUME Inv, [Next]_vars PROVE TypeOK'
  OBVIOUS
<1> USE MigrationsAssumption DEF Inv, TypeOK, Versions
<1>1. ASSUME NEW r \in Replicas, GetApplied(r) PROVE TypeOK'
  BY <1>1 DEF GetApplied
<1>2. ASSUME NEW r \in Replicas, Skip(r) PROVE TypeOK'
  <2>1. next[r] \in Versions /\ next[r] + 1 \in 1..(Files + 1)
    BY <1>2 DEF Skip
  <2> QED
    BY <1>2, <2>1 DEF Skip
<1>3. ASSUME NEW r \in Replicas, ApplyMigration(r) PROVE TypeOK'
  <2>1. CASE Exit(r) /\ UNCHANGED <<inSchema, rows>>
    BY <1>3, <2>1 DEF ApplyMigration, Exit
  <2>2. CASE Takes(r)
    <3>1. next[r] \in Versions \ applied[r] /\ UNCHANGED <<recorded, faults>>
      BY <1>3 DEF ApplyMigration
    <3>2. rows' \in 0..MaxRows
      BY <2>2 DEF Takes
    <3> QED
      BY <2>2, <3>1, <3>2 DEF Takes
  <2> QED
    BY <1>3, <2>1, <2>2 DEF ApplyMigration, Takes
<1>4. ASSUME NEW r \in Replicas, RecordApplied(r) PROVE TypeOK'
  <2>1. next[r] \in Versions /\ next[r] + 1 \in 1..(Files + 1)
    BY <1>4 DEF RecordApplied
  <2> QED
    BY <1>4, <2>1 DEF RecordApplied
<1>5. ASSUME NEW r \in Replicas, Listen(r) PROVE TypeOK'
  BY <1>5 DEF Listen
<1>6. ASSUME NEW r \in Replicas, Serve(r) PROVE TypeOK'
  BY <1>6 DEF Serve
<1>7. ASSUME NEW r \in Replicas, Crash(r) PROVE TypeOK'
  BY <1>7 DEF Crash, Exit, Fault
<1>8. CASE UNCHANGED vars
  BY <1>8 DEF vars
<1> QED
  BY <1>1, <1>2, <1>3, <1>4, <1>5, <1>6, <1>7, <1>8 DEF Next, Migrate

\* A replica applies a file when those before it are recorded.
LEMMA NextOrder == Inv /\ [Next]_vars => (InOrder /\ ReplicaInv /\ RowsInv)'
<1> SUFFICES ASSUME Inv, [Next]_vars
             PROVE  (InOrder /\ ReplicaInv /\ RowsInv)'
  OBVIOUS
<1>0. TypeOK'
  BY NextType
<1> USE MigrationsAssumption, <1>0
    DEF Inv, TypeOK, InOrder, ReplicaInv, RowsInv, Behind, Versions
<1>1. ASSUME NEW r \in Replicas, GetApplied(r)
      PROVE  (InOrder /\ ReplicaInv /\ RowsInv)'
  BY <1>1 DEF GetApplied
<1>2. ASSUME NEW r \in Replicas, Skip(r)
      PROVE  (InOrder /\ ReplicaInv /\ RowsInv)'
  BY <1>2 DEF Skip
<1>3. ASSUME NEW r \in Replicas, ApplyMigration(r)
      PROVE  (InOrder /\ ReplicaInv /\ RowsInv)'
  <2>1. CASE Exit(r) /\ UNCHANGED <<inSchema, rows>>
    BY <1>3, <2>1 DEF ApplyMigration, Exit
  <2>2. CASE Takes(r)
    <3>1. next[r] \in Versions /\ UNCHANGED recorded /\ pc[r] = "apply"
      BY <1>3, <2>2 DEF ApplyMigration
    <3>2. InOrder'
      BY <2>2, <3>1 DEF Takes
    <3>3. (ReplicaInv /\ RowsInv)'
      BY <2>2, <3>1 DEF Takes
    <3> QED
      BY <3>2, <3>3
  <2> QED
    BY <1>3, <2>1, <2>2 DEF ApplyMigration, Takes
<1>4. ASSUME NEW r \in Replicas, RecordApplied(r)
      PROVE  (InOrder /\ ReplicaInv /\ RowsInv)'
  BY <1>4 DEF RecordApplied
<1>5. ASSUME NEW r \in Replicas, Listen(r)
      PROVE  (InOrder /\ ReplicaInv /\ RowsInv)'
  <2>1. next[r] = Files + 1 /\ Behind(r)
    BY <1>5 DEF Listen
  <2>2. recorded = Versions
    <3>1. next[r] - 1 = Files
      BY <2>1
    <3>2. 1..Files \subseteq recorded
      BY <2>1, <3>1
    <3> QED
      BY <3>2
  <2> QED
    BY <1>5, <2>2 DEF Listen
<1>6. ASSUME NEW r \in Replicas, Serve(r)
      PROVE  (InOrder /\ ReplicaInv /\ RowsInv)'
  BY <1>6 DEF Serve
<1>7. ASSUME NEW r \in Replicas, Crash(r)
      PROVE  (InOrder /\ ReplicaInv /\ RowsInv)'
  BY <1>7 DEF Crash, Exit
<1>8. CASE UNCHANGED vars
  BY <1>8 DEF vars
<1> QED
  BY <1>1, <1>2, <1>3, <1>4, <1>5, <1>6, <1>7, <1>8 DEF Next, Migrate

(***************************************************************************)
(* Runner.Run of every replica keeps the inductive invariant.              *)
(***************************************************************************)
THEOREM Invariance == Spec => []Inv
<1>1. Inv /\ [Next]_vars => Inv'
  BY NextType, NextOrder DEF Inv
<1> QED
  BY InitInv, <1>1, PTL DEF Spec

(***************************************************************************)
(* Runner.Run needs no lock for this: the migrations take effect in order, *)
(* each after the ones before it are recorded, and no replica serves early.*)
(***************************************************************************)
THEOREM Ordered == Spec => []InOrder
<1>1. Inv => InOrder
  BY DEF Inv
<1> QED
  BY <1>1, Invariance, PTL

(***************************************************************************)
(* Rows that a rebuild (011) drops are lost to a replica whose copy of     *)
(* schema_migrations is stale, never to a crash and a restart.             *)
(***************************************************************************)
THEOREM LossIsStale == Spec => RowsLostToStaleCopy
<1> DEFINE Stale == \E r \in Replicas :
                      pc[r] = "apply" /\ next[r] \in recorded \ applied[r]
<1>1. ASSUME Inv, [Next]_vars, rows' < rows PROVE Stale
  <2>1. PICK r \in Replicas : ApplyMigration(r) /\ rows' = 0
    BY <1>1 DEF Next, Migrate, GetApplied, Skip, ApplyMigration, RecordApplied,
                Listen, Serve, Crash, Inv, TypeOK, vars
  <2>2. recorded = Versions
    BY <1>1, <2>1 DEF Inv, TypeOK, RowsInv
  <2> QED
    BY <2>1, <2>2 DEF ApplyMigration
<1>2. Inv /\ [Next]_vars => [rows' < rows => Stale]_vars
  BY <1>1
<1> QED
  BY <1>2, Invariance, PTL DEF Spec, RowsLostToStaleCopy

(***************************************************************************)
(* Whatever replicas start, crash and start again, Runner.Run records only *)
(* a migration that it has applied.                                        *)
(***************************************************************************)
THEOREM TypeCorrect == Spec => []TypeOK
<1>1. Inv => TypeOK
  BY DEF Inv
<1> QED
  BY <1>1, Invariance, PTL
=============================================================================
