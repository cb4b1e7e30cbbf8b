---------------------------- MODULE MCGuiSupervisor ----------------------------
EXTENDS GuiSupervisor
CONSTANTS p1, p2
MCProcs == {p1, p2}
=============================================================================
