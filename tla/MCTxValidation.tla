--------------------------- MODULE MCTxValidation ---------------------------
(* Small instances of TxValidation for TLC. *)
EXTENDS TxValidation, SequencesExt

\* digits of the message: none, one or two, and one vector over the bound of 3
MCMessageVectors == {<<>>, <<1>>, <<0, 1>>, <<0, 0, 1, 2>>}

\* a permutation, a pinpad that repeats a key, one that is not utf8, one over the
\* bound
MCPinpadVectors == {<<1, 2, 0>>, <<2, 2, 1>>, <<200, 1>>, <<0, 1, 2, 0>>}

MCNonUtf8 == {<<200, 1>>}

\* raw digits, the same digits in ASCII, a byte past them and a code
\* point over a byte
MCInputs == BoundedSeq({0, 2, 48, 50, 58, 300}, 2)
=============================================================================
