------------------------------ MODULE MCImages ------------------------------
(***************************************************************************)
(* A small instance of Images: one image that two places offer, one as an  *)
(* archive (whose disk image is handed over raw where it is prepared) and  *)
(* one as the image itself; two requests at a time, one script given up.   *)
(* The goroutine meets another image only in the order of the queue, so    *)
(* one image is enough.                                                    *)
(***************************************************************************)
EXTENDS Images

CONSTANTS i1, u1, u2, h1, h2, w1, w2, s1
MCImage == {i1}
MCURL == {u1, u2}
MCName == {"id.img", "id.img.xz", "base.xz"}
MCHandler == {h1, h2}
MCWorker == {w1, w2}
MCStray == {s1}
MCmirrorName ==
    [j \in Job |-> IF j.url = u2 THEN "base.xz"
                   ELSE IF j.prepare THEN "id.img" ELSE "id.img.xz"]
MCpreparedName == [n \in MCName |-> IF n = "id.img" THEN "id.img.xz" ELSE n]

\* One goroutine is as good as another: the second is taken when the first runs.
FirstComesFirst == at[w2] # "none" => at[w1] # "none"
=============================================================================
