------------------------------- MODULE MCRxLoop -------------------------------
EXTENDS RxLoop

CONSTANTS f1, f2, f3, f4, f5, f6

SixFrames == {f1, f2, f3, f4, f5, f6}

=============================================================================
