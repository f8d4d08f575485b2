-------------------------------- MODULE MCSync --------------------------------
(* Sync between small trees.  Only comparisons of versions and times matter,  *)
(* so the files of the source all hold one version.                           *)
EXTENDS Sync

CONSTANTS SrcTimes, DstTimes

\* The second name is that of one file, in the base or below.
Small(t) ==
  LET second == {p \in DOMAIN t : 2 \in Range(p)}
  IN  Cardinality(second) <= 1 /\ \A p \in second : ~t[p].dir

Shapes(vers, times) ==
  {t \in UNION {[S -> {Directory} \cup {File(v, m) : v \in vers, m \in times}] :
                  S \in SUBSET {<<>>, <<1>>, <<1, 1>>, <<1, 2>>, <<2>>}} : IsTree(t) /\ Small(t)}

SmallInit ==
  /\ opts \in Options
  /\ ~(opts.update /\ opts.checksum)
  /\ src \in {t \in Shapes({1}, SrcTimes) : \A p \in DOMAIN t : KeptAt(opts.fromImage, t[p].mtime)}
  /\ dst \in {t \in Shapes(Versions, DstTimes) : \A p \in DOMAIN t : KeptAt(opts.toImage, t[p].mtime)}
  /\ Fresh
SmallSpec == SmallInit /\ [][Next]_vars
=============================================================================
