------------------------------ MODULE MCEngine ------------------------------
\* Engine with a metrics listener, a local one, two dial goroutines and two
\* callers of Close.
EXTENDS Engine

CONSTANTS metrics, local, w1, w2, c1, c2

ListenerValue == {metrics, local}
EarlyValue == {metrics}
WorkerValue == {w1, w2}
CloserValue == {c1, c2}
=============================================================================
