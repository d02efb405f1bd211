-------------------------- MODULE MCConsoleBuffer --------------------------
EXTENDS ConsoleBuffer

OnlyReceived == {"received"}

\* New line bytes, and two time stamp bytes in a row.
Breaks == {2, 7}
Stamps == {4, 5}
Short == {2, 3}
=============================================================================
