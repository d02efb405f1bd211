------------------------- MODULE MCScriptLifecycle -------------------------
EXTENDS ScriptLifecycle

CONSTANTS a, b, t1, t2

TwoScripts == {a, b}
TwoThreads == {t1, t2}
OneWindow == {t1}
=============================================================================
