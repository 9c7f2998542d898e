--------------------------- MODULE MCApiKeysExport ---------------------------
(* ApiKeysExport on small instances. *)
EXTENDS ApiKeysExport, TLC

CONSTANTS a1, a2

\* Self-care at the start: nobody is managed, or two institutions with a group
\* each, or with a second group on a page of its own.
MCInit ==
  /\ ExportInit
  /\ <<delegated, groups>> \in
       { << <<>>, <<>> >>,
         << <<a1, a2>>, << <<a1, 1>>, <<a2, 1>> >> >>,
         << <<a1, a2>>, << <<a1, 1>>, <<a2, 1>>, <<a2, 2>> >> >> }

MCSpec == MCInit /\ [][ExportNext]_exportVars /\ Fairness
=============================================================================
