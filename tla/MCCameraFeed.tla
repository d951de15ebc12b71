---- MODULE MCCameraFeed ----
\* Fetches and pages as model values.
EXTENDS CameraFeed, TLC

CONSTANTS f1, f2, p1
MCFetches == {f1, f2}
MCPages   == {p1}
====
