---------------------------- MODULE MCSearchPage -----------------------------
(* SearchPage for TLC.  Wired is the directory the page needs: places.html *)
(* under the name that index() renders.  Committed is what the repository  *)
(* holds.                                                                  *)
EXTENDS SearchPage

Wired == {"map.html"}
Committed == {"places.html"}
==============================================================================
