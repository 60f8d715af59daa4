---------------------------- MODULE MCCodeRelease ----------------------------
(* Candidate names are interchangeable.                                    *)
EXTENDS CodeRelease, TLC

MCSymmetry == Permutations(Candidates)
=============================================================================
