-------------------------- MODULE MCMobileRegistry --------------------------
(* Small instance of MobileRegistry for TLC: keys around both bounds. *)
EXTENDS MobileRegistry

MCKeyLengths == {0, MIN_PUB_KEY_LEN - 1, MIN_PUB_KEY_LEN, MAX_PUB_KEY_LEN, MAX_PUB_KEY_LEN + 1}
=============================================================================
