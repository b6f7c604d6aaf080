-------------------------------- MODULE MCWire --------------------------------
(***************************************************************************)
(* An instance of Wire for TLC.  Every number an enum or a default of the  *)
(* schema has is there, and one that none has; 3 is rounded to a float32   *)
(* and 4 is too large for one; the vectors of an arm each tell their field *)
(* apart from the others.                                                  *)
(***************************************************************************)
EXTENDS Wire

MCFloat32 == [x \in 0 .. 3 |-> IF x = 3 THEN 2 ELSE x]
MCVectors == {<<>>, <<1, 2>>, <<0, 3>>, <<4>>}
MCJointVectors == {<<>>, <<1, 2>>, <<255, 256>>}
MCFloats == 0 .. 4
MCNumbers == 0 .. 2
MCEnumCodes == 0 .. 6
MCResultCodes == 0 .. 25
MCTexts == {"", "because"}

(* Every kind, with and without what is optional; and numbers that are rounded or
   too large wherever a vector may hold them *)
MCMoves ==
  LET imps(stiffness, damping) ==
        [kind : {"TcpImpedance", "JointImpedance"}, stiffness : {stiffness}, damping : {damping}]
      poses(targets, velocities, impedances) ==
        [kind : {"JointPose"}, target : targets, velocity : velocities, impedance : impedances]
      twists(targets, impedances) ==
        [kind : {"JointTwist"}, target : targets, velocity : {{}}, impedance : impedances]
      usual == {{}} \cup {{i} : i \in imps(<<1, 2>>, <<>>) \cup imps(<<>>, <<1, 2>>)}
  IN  poses({<<>>, <<1, 2>>}, {{}, {<<>>}, {<<1, 2>>}}, usual)
      \cup twists({<<>>, <<1, 2>>}, usual)
      \cup poses({<<0, 3>>, <<4>>}, {{<<0, 3>>}}, {{}})
      \cup poses({<<1, 2>>}, {{<<4>>}}, {{}})
      \cup twists({<<0, 3>>}, {{i} : i \in imps(<<0, 3>>, <<0, 3>>) \cup imps(<<4>>, <<>>)
                                          \cup imps(<<>>, <<4>>)})

(* All of an arm's vectors, all but one, or none *)
MCArmReadings ==
  LET all == DOMAIN ArmTelemetryAdds
  IN  {[f \in fields |-> <<f>>] : fields \in {all, {}} \cup {all \ {f} : f \in all}}
=============================================================================
