----------------------------- MODULE MCCodeView -----------------------------
EXTENDS CodeView
CONSTANTS f, g
MCFuncs == {f, g}
MCNeedsCca == {g}
=============================================================================
