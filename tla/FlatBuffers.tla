----------------------------- MODULE FlatBuffers -----------------------------
(***************************************************************************)
(* FlatBuffers tables as the generated code of ruvion_client/proto writes  *)
(* and reads them.  The flatbuffers package is not part of the repository: *)
(* this is what the client relies on.                                      *)
(*                                                                         *)
(* A field of a message holds at most one value, written as a set: {v}, or *)
(* {} for a table or vector that is absent.  A table is a function from    *)
(* the slots that were stored to their fields.  A layout says for each     *)
(* field of a generated class which slot it has and which default; the     *)
(* class has one for its Add functions and one for its accessors.          *)
(***************************************************************************)
EXTENDS Integers, FiniteSets, Sequences, SequencesExt

CONSTANT Float32 (* what PrependFloat32 stores of a number: that float32 next to it;
                    it raises for a number that is not in its domain        *)

(* The numbers that are defaults are float32. *)
ASSUME Float32Assumption ==
  /\ \A x \in DOMAIN Float32 : x \in Int /\ Float32[x] \in Int
  /\ \A x \in {0, 1} : x \in DOMAIN Float32 /\ Float32[x] = x

(* builder.Prepend...Slot(slot, value, default) *)
Add(slot, default) == [slot |-> slot, default |-> default]

(* self._tab.Offset(offset), and what the accessor returns if that is 0 *)
Get(offset, default) == [slot |-> (offset - 4) \div 2, default |-> default]

(* The layout of a class with the fields of both *)
Extended(layout, further) ==
  [f \in DOMAIN layout \cup DOMAIN further |->
     IF f \in DOMAIN layout THEN layout[f] ELSE further[f]]

(* The default of an offset, and an accessor that returns None *)
Absent == {}

(* Start, the Add functions and End: a value equal to the default is not stored. *)
WriteTable(adds, value) ==
  LET stored == {f \in DOMAIN adds : value[f] # adds[f].default}
  IN  [s \in {adds[f].slot : f \in stored} |->
         value[CHOOSE f \in stored : adds[f].slot = s]]

(* The accessors, all of them *)
ReadTable(gets, table) ==
  [f \in DOMAIN gets |-> IF gets[f].slot \in DOMAIN table
                         THEN table[gets[f].slot]
                         ELSE gets[f].default]

(* The value of a field that has one *)
Value(field) == CHOOSE v \in field : TRUE

(* StartVector, a Prepend for each item in turn, EndVector: the item prepended
   last is the first of the vector. *)
PrependAll(items) == Reverse(items)

(* Calling an IntEnum, its members with their numbers, with the number of a field:
   the member, {} for a ValueError *)
Member(enum, field) == {m \in DOMAIN enum : enum[m] \in field}

NoFields == [f \in {} |-> Add(0, Absent)]

(* The numbers a Prepend of this width takes; it raises for any other. *)
Uint8 == 0 .. 255

(* A vector of numbers as it is stored, if each of them can be *)
Storable(vector) == \A i \in DOMAIN vector : vector[i] \in DOMAIN Float32
Stored(vector) == [i \in DOMAIN vector |-> Float32[vector[i]]]
=============================================================================
