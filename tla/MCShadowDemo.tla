---------------------------- MODULE MCShadowDemo ----------------------------
\* ShadowDemo as TLC checks it; the .cfg files give the bounds.
EXTENDS ShadowDemo
=============================================================================
