------------------------------ MODULE MCOverlay ------------------------------
\* An instance of Overlay: black, white, a dark colour of which the desktop of 16 bits keeps
\* one bit and a light one; every driver and both desktops.
EXTENDS Overlay

MCColours == {0, 16, 136, 255}
=============================================================================
