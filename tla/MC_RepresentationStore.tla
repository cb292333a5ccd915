---------------------- MODULE MC_RepresentationStore ----------------------
(* Small instances of RepresentationStore for TLC.                         *)
EXTENDS RepresentationStore

CONSTANTS a, b

\* Two octet values are enough to corrupt any position of the payload; the
\* representation repeats one, so that a shifted replay can look plausible.
MCOctets == {a, b}
MCEncoded == <<a, b, a>>
MCShort == <<a, b>>
=============================================================================
