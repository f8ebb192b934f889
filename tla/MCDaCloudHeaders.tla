-------------------------- MODULE MCDaCloudHeaders --------------------------
(* Names and values of one to three characters, one name the beginning of  *)
(* another, and a buffer that two or three of them fill.                   *)
EXTENDS DaCloudHeaders, XXHashStream

MCNames == {<<"a">>, <<"b">>, <<"a", "b">>, <<"c">>}
MCTexts == {<<>>, <<"b">>, <<"b", "c">>, <<"c", "c", "c">>}

(* The headers, or an input hashed in pieces: the two share nothing, and    *)
(* one of them is at work while the other has not begun.                    *)
MCInit == Init /\ StreamInit
MCNext ==
  \/ Next /\ fed = <<>> /\ UNCHANGED stream
  \/ StreamNext /\ (\A h \in Request : list[h] = <<>> /\ adds[h] = 0) /\ alive /\ UNCHANGED vars
MCSpec == MCInit /\ [][MCNext]_<<vars, stream>>
=============================================================================
