----------------------------- MODULE TraceStats -----------------------------
(***************************************************************************)
(* The statistics of a trace, from the texts of the device to what a user  *)
(* is shown: trace stats of cli/app.py and the dialog of the GUI           *)
(* (gui/stats_dialog.py), which fetch the trace, and the panel of the main *)
(* window (gui/main_window.py), which is fed by the subscription and keeps *)
(* the frequencies of an earlier event.  They share no state, so a         *)
(* behaviour is that of one of them.                                       *)
(***************************************************************************)
EXTENDS Statistics

CONSTANTS
    FrequencyTexts, ValueTexts,     \* texts of the device, as sequences of lines
    Units, Windows,                 \* units and ranges (start and stop) asked for
    NoCall, Blank                   \* nothing asked, nothing shown

\* The device has as many lines for the values of a trace as for its
\* frequencies, and never sweeps downwards.
ASSUME TextsAssumption ==
    \A freqs \in FrequencyTexts, values \in ValueTexts :
        /\ freqs \in Seq(Nat \cup {Garbled}) /\ values \in Seq(Int \cup {Garbled})
        /\ Len(freqs) = Len(values)
        /\ \A i \in DOMAIN values : values[i] # Garbled => values[i] >= Floor
        /\ \A i, j \in DOMAIN freqs :
               i < j /\ Garbled \notin {freqs[i], freqs[j]} => freqs[i] <= freqs[j]

VARIABLES
    display,    \* "fetched" or "panel"
    call,       \* what the user has asked for, while it is fetched
    texts,      \* the texts that fetch_data has read for it
    axis,       \* the text behind _last_freqs of the main window, none as <<>>
    shown       \* what has been shown last, and of which texts

statsVars == <<display, call, texts, axis, shown>>

\* What compute_stats makes of two texts.
Result(freqs, values, unit, window, antenna) ==
    [freqs |-> freqs, values |-> values, unit |-> unit, window |-> window,
     stats |-> ComputeStats(Parse(freqs), Parse(values), unit, window[1], window[2], antenna)]

StatsInit ==
    /\ display \in {"fetched", "panel"} /\ call = NoCall
    /\ texts = <<>> /\ axis = <<>> /\ shown = Blank

\* trace_stats, or _calculate.
Ask(unit, window, antenna) ==
    /\ display = "fetched" /\ call = NoCall
    /\ call' = [unit |-> unit, window |-> window, antenna |-> antenna]
    /\ shown' = Blank /\ UNCHANGED <<display, texts, axis>>

\* fetch_data reads the frequencies, then the values.
FetchFrequencies(freqs) ==
    /\ call # NoCall /\ texts = <<>> /\ texts' = <<freqs>>
    /\ UNCHANGED <<display, call, axis, shown>>

FetchValues(values) ==
    /\ Len(texts) = 1 /\ texts' = <<texts[1], values>>
    /\ UNCHANGED <<display, call, axis, shown>>

\* The call raises.
FetchFails ==
    /\ call # NoCall /\ Len(texts) < 2
    /\ call' = NoCall /\ texts' = <<>> /\ UNCHANGED <<display, axis, shown>>

\* The call returns, and its result is shown.
ShowFetched ==
    /\ Len(texts) = 2
    /\ shown' = Result(texts[1], texts[2], call.unit, call.window, call.antenna)
    /\ call' = NoCall /\ texts' = <<>> /\ UNCHANGED <<display, axis>>

\* _on_subscription_data, of an event whose frequencies are freqs, or which has
\* none: the whole range, in dBm, and nothing when the lengths differ.
OnSubscriptionData(freqs, values) ==
    LET last == IF Parse(freqs) = <<>> THEN axis ELSE freqs
        hz == Parse(last)
    IN  /\ display = "panel" /\ axis' = last
        /\ shown' = IF hz = <<>> \/ Len(hz) # Len(Parse(values)) THEN shown
                    ELSE Result(last, values, "dBm", <<hz[1], hz[Len(hz)]>>, FALSE)
        /\ UNCHANGED <<display, call, texts>>

StatsNext ==
    \/ \E unit \in Units, window \in Windows, antenna \in BOOLEAN : Ask(unit, window, antenna)
    \/ \E freqs \in FrequencyTexts : FetchFrequencies(freqs)
    \/ \E values \in ValueTexts : FetchValues(values)
    \/ FetchFails
    \/ ShowFetched
    \/ \E freqs \in FrequencyTexts \cup {<<>>}, values \in ValueTexts : OnSubscriptionData(freqs, values)

StatsSpec == StatsInit /\ [][StatsNext]_statsVars

----------------------------------------------------------------------------

\* Of two texts of which at most one has garbled lines: statistics are refused,
\* or are those of the points the device has sent, each value at its own
\* frequency.  A trace in decibels with a point in the range and no garbled line
\* is never refused.
Agrees(d) ==
    Garbled \notin Range(d.freqs) \/ Garbled \notin Range(d.values) =>
        LET clean == Garbled \notin Range(d.freqs) \cup Range(d.values)
            points == Filter(Sent(d.freqs, d.values), d.window[1], d.window[2])
        IN  /\ d.stats # Error => clean /\ Describes(d.stats, points, d.unit)
            /\ clean /\ points # <<>> /\ d.unit \in DbUnits => d.stats # Error

\* Whatever the range and the unit, and whoever asks: what is shown is true of
\* what the device has sent.
StatsAgree == shown # Blank => Agrees(shown)
=============================================================================
