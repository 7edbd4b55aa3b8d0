---------------------------- MODULE MCObserver ----------------------------
\* Small instances of Observer: the kinds of reports clients may ask for.
EXTENDS Observer

AllModes  == [full : BOOLEAN, continuous : BOOLEAN]
AllSetups == [alwaysOn : BOOLEAN, openOnStart : BOOLEAN]
=============================================================================
