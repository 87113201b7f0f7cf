----------------------------- MODULE MCCorpus ------------------------------
(* Instances of Corpus for TLC: what the files hold when they are complete. *)
EXTENDS Corpus

\* Two batches of one and two rows.
TwoBatches == << <<"a">>, <<"b", "c">> >>

\* Two files with the same content.
SameContent == << <<"a">>, <<"a">> >>

\* One file of two rows.
OneFile == << <<"a", "b">> >>

\* One file of one row.
OneRow == << <<"a">> >>

============================================================================
