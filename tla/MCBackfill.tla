----------------------------- MODULE MCBackfill -----------------------------
(***************************************************************************)
(* One source with media a and b; b may be downloaded, yet to be           *)
(* downloaded, or named so that its file starts like a's, and a may be     *)
(* what a killed run left.  New names contain the key, old ones do not.    *)
(* While b can still be downloaded during a run, a stands where its row    *)
(* says and only the files that a download or a rename meets lie around.   *)
(***************************************************************************)
EXTENDS Backfill, TLC

Key == [a |-> "kA", b |-> "kB"]
MCMedia == {"a", "b"}
MCOrder == <<"a", "b">>
MCKeyOf(m) == Key[m]
File(dir, name) == [dir |-> dir, name |-> name]
Old_(stem, suffix) == File("top", stem \o <<".", suffix>>)
New_(m, suffix) == File("season", <<"ep", Key[m], ".", suffix>>)
MCTarget(m, q) ==
  IF q = "new" THEN New_(m, "mkv")
  ELSE Old_(IF m = "a" THEN <<"foo">> ELSE <<"bar">>, "mkv")

\* Files that may lie around, each with what is in it.
Other(n) == [kind |-> "other", of |-> n]
Extras ==
  (Old_(<<"foo">>, "jpg") :> Other("art")) @@
  (Old_(<<"foo">>, "nfo") :> Nfo("a")) @@
  (New_("a", "nfo") :> Other("notes")) @@
  (Old_(<<"x", "kA">>, "txt") :> Other("sheet")) @@
  (Old_(<<"foo", "1">>, "mkv") :> Other("clip")) @@
  (New_("b", "mkv") :> Other("squatter")) @@
  (ShowNfo :> Other("show"))

\* The rows, and where the videos really are.
Rows ==
  {[a |-> Old_(<<"foo">>, "mkv"), b |-> b] :
     b \in {NoPath, Old_(<<"bar">>, "mkv"), Old_(<<"foo", "2">>, "mkv")}}
Videos(r, moved) ==
  (IF moved THEN New_("a", "mkv") ELSE r["a"]) :> Video("a") @@
  (IF r["b"] = NoPath THEN <<>> ELSE r["b"] :> Video("b"))
Few == {E \in SUBSET DOMAIN Extras : Cardinality(E) <= 1}
Meets == {Old_(<<"foo">>, "jpg"), New_("b", "mkv")}
MCLayouts ==
  {[disk |-> [p \in l.stray |-> Extras[p]] @@ Videos(l.row, l.moved),
    row |-> l.row, cascade |-> l.cascade] :
     l \in {c \in [stray : Few, row : Rows, moved : BOOLEAN, cascade : BOOLEAN] :
              c.row["b"] = NoPath => ~ c.moved /\ c.stray \subseteq Meets}}
=============================================================================
