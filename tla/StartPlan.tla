------------------------------- MODULE StartPlan -------------------------------
(***************************************************************************)
(* The instances that dnslab.start brings up, one after the other, of a    *)
(* server that declares several.                                           *)
(***************************************************************************)
EXTENDS Naturals, Sequences

(* The declared instances in their order, or those of the profile that was *)
(* asked for (any: none was).                                              *)
Planned(instances, asked, any) ==
    LET upto[n \in 0 .. Len(instances)] ==
            IF n = 0 THEN <<>>
            ELSE IF asked \in {any, instances[n].profile} THEN Append(upto[n - 1], instances[n])
            ELSE upto[n - 1]
    IN upto[Len(instances)]

=============================================================================
