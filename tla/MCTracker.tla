----------------------------- MODULE MCTracker -----------------------------
\* Small instances of Tracker: the tracker as started by the main loop, with
\* latent ids, and the settings under which a comment of it does not hold.
EXTENDS Tracker
=============================================================================
