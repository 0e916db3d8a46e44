------------------------ MODULE MCAntennaDeployment -------------------------
(***************************************************************************)
(* AntennaDeployment with one manual deployment behind the automatic one,  *)
(* for TLC: the others repeat it with another antenna.                     *)
(***************************************************************************)
EXTENDS AntennaDeployment

McAntennas == <<"Auto", "Antenna1">>

\* Mission time is put back or forward by two minutes, which is as long as the
\* longest burn; the code allows less than two hours.
McCorrections == {-2, 2}

=============================================================================
