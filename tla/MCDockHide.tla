----------------------------- MODULE MCDockHide -----------------------------
(* DockHide for TLC.                                                        *)
EXTENDS DockHide

CONSTANTS left, right, popup

TwoScreens == {left, right}
OnePopup == {popup}
=============================================================================
