---------------------------- MODULE MCLzssDepacker ----------------------------
(* LzssDepacker in an EWRAM of a few words: the cfg gives the sizes.       *)
EXTENDS LzssDepacker

\* The largest stream, without references and with padding, exceeds EWRAM.
ASSUME HeaderSize + MaxData + (MaxData + TokensPerFlag - 1) \div TokensPerFlag + 3 > EwramSize
=============================================================================
