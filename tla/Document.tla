------------------------------ MODULE Document ------------------------------
(***************************************************************************)
(* The document algebra every session component works on: documents, the   *)
(* patch operations that change them and the commands that produce the     *)
(* patches (packages/core/src/commands/patch.ts, contract.ts, session.ts). *)
(*                                                                         *)
(* A document is a map from addressable paths to values.  A path is a      *)
(* member of Keys, the JSON below it a member of Vals, and Absent says     *)
(* that the path is not an own property.  A patch is one operation: what   *)
(* the sessions tell apart is whether a patch applies, what it leaves, and *)
(* what its inverse is, and none of that depends on a patch having several *)
(* operations.                                                             *)
(***************************************************************************)
CONSTANTS Keys, Vals, Absent

ASSUME AbsentAssumption == Absent \notin Vals

Slots == Vals \cup {Absent}

Docs == [Keys -> Slots]

(***************************************************************************)
(* A recorded operation keeps the value it overwrote, so that it carries   *)
(* its own inverse: old = Absent is an 'add', val = Absent a 'remove', and *)
(* anything else a 'replace'.                                              *)
(***************************************************************************)
PatchOps == [key : Keys, old : Slots, val : Slots]

OpKinds == {"add", "remove", "replace"}

KindOf(p) == IF p.old = Absent THEN "add"
             ELSE IF p.val = Absent THEN "remove" ELSE "replace"

(* invertOp: add <-> remove, and a replace swaps value and oldValue.       *)
Invert(p) == [key |-> p.key, old |-> p.val, val |-> p.old]

(***************************************************************************)
(* toWirePatch: what the collab wire carries has no oldValue; a remove has *)
(* no value either.                                                        *)
(***************************************************************************)
WirePatches == [op : OpKinds, key : Keys, val : Slots]

Wire(p) == [op |-> KindOf(p), key |-> p.key, val |-> p.val]

(* applyOps refuses an add over an own property and a remove or replace of *)
(* a missing one; otherwise it writes the value.                           *)
Applies(d, w) == IF w.op = "add" THEN d[w.key] = Absent ELSE d[w.key] # Absent

Apply(d, w) == [d EXCEPT ![w.key] = w.val]

(***************************************************************************)
(* Commands.  Three families stand for the registry: "add" creates (it     *)
(* fails where something exists), "set" writes an existing entity (it      *)
(* fails where the entity is missing and is a successful no-op where the   *)
(* value is already there), "remove" deletes.  "patch" is session.patch,   *)
(* the internal command undo and redo are dispatched as: its writes are    *)
(* tx.set, which overwrites whatever is there, and its removes fail on a   *)
(* missing path.                                                           *)
(***************************************************************************)
Commands ==
  {[kind |-> "add", key |-> k, val |-> v] : k \in Keys, v \in Vals} \cup
  {[kind |-> "set", key |-> k, val |-> v] : k \in Keys, v \in Vals} \cup
  {[kind |-> "remove", key |-> k, val |-> Absent] : k \in Keys}

SessionPatch(w) == [kind |-> "patch", key |-> w.key, val |-> w.val]

Fails(d, c) ==
  \/ c.kind = "add" /\ d[c.key] # Absent
  \/ c.kind = "set" /\ d[c.key] = Absent
  \/ c.kind \in {"remove", "patch"} /\ c.val = Absent /\ d[c.key] = Absent

IsNoOp(d, c) == c.kind = "set" /\ d[c.key] = c.val

(* A command commits when it neither fails nor dissolves into nothing.     *)
Commits(d, c) == ~Fails(d, c) /\ ~IsNoOp(d, c)

(* The forward operation of a command that commits.                        *)
Forward(d, c) == [key |-> c.key, old |-> d[c.key], val |-> c.val]
=============================================================================
