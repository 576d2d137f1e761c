-------------------------- MODULE MCServiceSelection --------------------------
(***************************************************************************)
(* Two services for ServiceSelection.  The first has MPTs in which the     *)
(* video has moved to another packet and a commentary track has come       *)
(* between the two audio tracks: under one the assets that stay keep their *)
(* indices and the new ones take free ones; under the other all are        *)
(* counted anew, as after the demuxer has forgotten its streams.  The      *)
(* second service has two videos, shares the tags and the indices of the   *)
(* first, and may have nothing.                                            *)
(***************************************************************************)
EXTENDS ServiceSelection

Asset4(type, packet, tag, index) ==
    [type |-> type, packet |-> packet, tag |-> tag, index |-> index]

TwoPlts == {<<>>, <<1>>, <<2>>, <<1, 2>>, <<2, 1>>}

FirstMpt ==
    [package |-> 1,
     assets |-> <<Asset4("video", 10, 0, 0), Asset4("audio", 11, 16, 1),
                  Asset4("audio", 12, 17, 2), Asset4("subtitle", 13, 56, 3)>>]

TwoServices ==
    {FirstMpt,
     [package |-> 1,
      assets |-> <<Asset4("video", 14, 0, 0), Asset4("audio", 11, 16, 1),
                   Asset4("audio", 15, 18, 4), Asset4("audio", 12, 17, 2),
                   Asset4("subtitle", 13, 56, 3)>>],
     [package |-> 1,
      assets |-> <<Asset4("video", 14, 0, 0), Asset4("audio", 11, 16, 1),
                   Asset4("audio", 15, 18, 2), Asset4("audio", 12, 17, 3),
                   Asset4("subtitle", 13, 56, 4)>>],
     [package |-> 2,
      assets |-> <<Asset4("video", 20, 1, 0), Asset4("audio", 22, 16, 1),
                   Asset4("video", 21, 0, 2), Asset4("subtitle", 23, 48, 3)>>],
     [package |-> 2, assets |-> <<>>]}

\* The pre-scan has seen the first MPT.
OneScanned == {FirstMpt}
=============================================================================
