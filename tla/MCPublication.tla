---------------------------- MODULE MCPublication ----------------------------
(* Instances of Publication for TLC. *)
EXTENDS Publication, TLC

\* The states a snapshot can be of are interchangeable.
ContentSymmetry == Permutations(Contents)

\* A state in which the NAS is excused is checked but not continued: no property
\* then says anything of the NAS any more, and nothing the NAS holds reaches the
\* local directory, whose behaviours all go on from states without the excuse.
NasNotExcused == past \cap {"half", "late"} = {}
=============================================================================
