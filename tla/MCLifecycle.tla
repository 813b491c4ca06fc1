---------------------------- MODULE MCLifecycle ----------------------------
(***************************************************************************)
(* Lifecycle on images of one to five groups of eight blocks.             *)
(***************************************************************************)
EXTENDS Lifecycle

\* Two blocks a cylinder, four cylinders a group.
MCCyls  == 0..3
MCCylOf == [b \in 0..7 |-> b \div 2]

Shape(runs, far) == [runs |-> runs, far |-> far]

\* A short tail; a file with a hole where its direct blocks would be, so that
\* the block behind the indirect root comes first.
MCShapes == {Shape(<<3>>, 0), Shape(<<>>, 1)}
=============================================================================
