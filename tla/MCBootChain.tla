---------------------------- MODULE MCBootChain ----------------------------
(* BootChain with entries of two sectors and two pages. *)
EXTENDS BootChain

McSectorOf == [b \in {"valid", "p", "q"} |-> IF b = "q" THEN 1 ELSE 0]
McPrograms == [g \in Groups |-> IF g = DefaultBootSlot THEN {"p"} ELSE {"q"}]
McUploadTargets == {DefaultFailsafeBootSlot}
McMaskPairs ==
    {<<DefaultFailsafeBootSlot, DefaultFailsafeBootSlot>>,
     <<DefaultBootSlot \cup {6}, DefaultFailsafeBootSlot>>, <<UpperBootSlot, DefaultBootSlot>>}
McBroken == {{{}, {"p"}}, {{}, {"p", "q"}}}
=============================================================================
