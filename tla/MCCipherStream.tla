--------------------------- MODULE MCCipherStream ---------------------------
\* CipherStream on small records: at most two bytes to a record, writes
\* coalesced below two, a carrier that holds one record.
EXTENDS CipherStream
=============================================================================
