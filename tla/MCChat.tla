------------------------------- MODULE MCChat -------------------------------
(* Instances of Chat for TLC.                                              *)
EXTENDS Chat, TLC

CONSTANTS a1, a2, b1, b2, c1

(* Two chunks of a document on two pages, the second longer than a short   *)
(* question takes, two of another on one page, and a long one that fills   *)
(* the context almost alone.                                               *)
MCDocOf == a1 :> "A" @@ a2 :> "A" @@ b1 :> "B" @@ b2 :> "B" @@ c1 :> "C"
MCPageOf == a1 :> 1 @@ a2 :> 2 @@ b1 :> 1 @@ b2 :> 1 @@ c1 :> 1
MCIndex == a1 :> 0 @@ a2 :> 1 @@ b1 :> 1 @@ b2 :> 0 @@ c1 :> 0
MCSize == a1 :> 1 @@ a2 :> 4 @@ b1 :> 1 @@ b2 :> 1 @@ c1 :> 5

MCLists == {<<>>, <<a1>>, <<b1, a2, a1>>, <<a2, c1, b1, b2>>, <<c1, a2>>, <<b2, b1>>}

(* The stages that only one of the endpoints has are off in the other, and *)
(* a short question is as any other where sources are asked for.           *)
MCSettings ==
    {s \in SettingType :
        /\ s.endpoint = "stream" => ~s.multi /\ ~s.twoPass
        /\ s.adaptive => s.multi
        /\ s.multi => s.anchor
        /\ s.cited => ~s.short}

=============================================================================
