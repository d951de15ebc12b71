---- MODULE MCRaspiCam ----
\* One or two outputs as model values.
EXTENDS RaspiCam

CONSTANTS o1, o2
MCOne == {o1}
MCTwo == {o1, o2}
====
