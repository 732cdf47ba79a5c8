------------------------ MODULE MCThumbnailPipeline ------------------------
(***************************************************************************)
(* Constants for model-checking ThumbnailPipeline.                         *)
(***************************************************************************)
EXTENDS ThumbnailPipeline

CONSTANTS t1, t2, c1, c2, f1, NoHash

TwoThreads == {t1, t2}
OneCache == {c1}
TwoCaches == {c1, c2}
AllToOne == [t \in TwoThreads |-> c1]
EachItsOwn == [t \in TwoThreads |-> IF t = t1 THEN c1 ELSE c2]

OneFile == {f1}

\* Dimensions 1 are 256x256, dimensions 2 are 256x192.
OneDims == {1}
TwoDims == {1, 2}

\* The image decoders report the dimensions of the request ...
AsRequestedOne == [f \in OneFile |-> [d \in OneDims |-> d]]

\* ... the PSD, PDF, font and archive decoders those of the bitmap.
AsRendered == [f \in OneFile |-> [d \in TwoDims |-> 2]]

\* An order of the keys of one file: by version and dimensions, the empty key first.
RankOfKeys ==
  [k \in AllKeys |->
     IF k = NoHash THEN 0 ELSE 10 * (IF k.ver = NoMeta THEN 9 ELSE k.ver) + k.dims]

OneSize == {1}
\* The faults that concern the keys, with one cache; those that concern the files
\* of the directory, with two.
KeyFaults == {"hash", "meta", "stat"}
FileFaults == {"load", "scan", "save", "stray"}
=============================================================================
