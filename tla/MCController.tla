---------------------------- MODULE MCController ----------------------------
(* For TLC: frequencies around the powers of ten, and with zeros inside and *)
(* at the end; the texts of a sweep, the same with a garbled line, and of a *)
(* single frequency, with values of either sign.                            *)
EXTENDS Controller

MCFrequencies ==
    UNION {{n - 1, n, n + 1} : n \in {10 ^ k : k \in 0..9}}
        \cup {m * 10 ^ k + n : m \in {1, 20, 433}, k \in 3..6, n \in {0, 5, 50, 920}}

MCFloor == -2
MCFrequencyTexts == {<<1, 3, 6, 10>>, <<1, Garbled, 6, 10>>, <<3, 3, 3, 3>>}
MCValueTexts == {values \in [1..4 -> {MCFloor, 0, 1, Garbled}] :
                    Cardinality({i \in 1..4 : values[i] = Garbled}) <= 1}
MCWindows == {<<1, 10>>, <<2, 8>>, <<4, 5>>}

\* Commands and statistics share no state.  Bound: statistics are asked for
\* before any command, and no command follows statistics that have been shown.
MCInit == Init /\ StatsInit

MCNext ==
    \/ display = "fetched" /\ call = NoCall /\ shown = Blank /\ Next /\ UNCHANGED statsVars
    \/ Init /\ StatsNext /\ UNCHANGED vars

MCSpec == MCInit /\ [][MCNext]_<<vars, statsVars>> /\ WF_vars(ServeStep) /\ WF_vars(DeviceStep)
=============================================================================
