----------------------- MODULE MCSystemEventDetector -----------------------
EXTENDS SystemEventDetector

\* One kind of event is enough of each that the properties tell apart.
DispatchedKinds == {"epoch", "day", "dayOther"}
TrackedKinds == {"none", "epoch", "day", "dayOther", "task"}
=============================================================================
