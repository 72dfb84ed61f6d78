----------------------------- MODULE MCManifest -----------------------------
(* Manifest for TLC.                                                       *)
EXTENDS Manifest

\* A plain name; names with blanks; one that ends in the word "size", and one that
\* reads like a manifest without chunks.
MCNames ==
  {<<Word("a")>>,
   <<Word("a"), Word("b")>>,
   <<Word("a"), Word("b"), Word("size")>>,
   <<Word("a"), Word("size"), Num(1), Word("chunk_size"), Num(1), Word("chunks"),
     Num(0)>>}

=============================================================================
