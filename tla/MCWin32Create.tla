--------------------------- MODULE MCWin32Create ---------------------------
EXTENDS Win32Create, TLC

CONSTANTS c1, c2

MCKids == {c1, c2}

====
