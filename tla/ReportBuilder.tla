--------------------------- MODULE ReportBuilder ---------------------------
(***************************************************************************)
(* report_builder.c: a report of device metrics written into a buffer of a *)
(* given length.  Text is abstracted to its length: a list of metrics is a *)
(* sequence of the lengths its elements have as text, and Part[i] is the   *)
(* length of the i-th fixed part of the report with the numbers in it.     *)
(* What is kept is the arithmetic on the remaining length, which decides   *)
(* whether a report is made and whether it stays inside the buffer.        *)
(***************************************************************************)
EXTENDS Integers, Sequences, SequencesExt

\* The five formats between which the four arrays are written.
Parts == 1 .. 5

CONSTANT Part
ASSUME PartAssumption == Part \in [Parts -> Nat \ {0}]

\* A writer: the status so far, and ulRemainingBufferLength.
Writer(ok, remaining) == [ok |-> ok, remaining |-> remaining]

\* A bug to check the properties with: the terminating zero is forgotten.
SnprintfNoTerminator(w, length) ==
    IF w.ok /\ length > 0 /\ length <= w.remaining
    THEN Writer(TRUE, w.remaining - length) ELSE Writer(FALSE, w.remaining)

\* snprintf() of a text, with reportbuilderSNPRINTF_SUCCESS: the text and its
\* terminating zero have to fit.  After a failure nothing more is written.
Snprintf(w, length) ==
    IF w.ok /\ length > 0 /\ length < w.remaining
    THEN Writer(TRUE, w.remaining - length) ELSE Writer(FALSE, w.remaining)

\* An array marker is one character.
Marker(w) ==
    IF w.ok /\ w.remaining > 1 THEN Writer(TRUE, w.remaining - 1) ELSE Writer(FALSE, w.remaining)

\* The comma after the last element is taken back.
DiscardComma(w, elements) ==
    IF w.ok /\ elements # <<>> THEN Writer(TRUE, w.remaining + 1) ELSE w

\* Each element is written with a comma, between the two markers.
prvWritePortsArray(w, ports) ==
    Marker(DiscardComma(FoldLeft(LAMBDA acc, p : Snprintf(acc, p + 1), Marker(w), ports), ports))

prvWriteConnectionsArray(w, connections) ==
    Marker(DiscardComma(FoldLeft(LAMBDA acc, c : Snprintf(acc, c + 1), Marker(w), connections), connections))

prvWriteTaskIdsArray(w, tasks) ==
    Marker(DiscardComma(FoldLeft(LAMBDA acc, t : Snprintf(acc, t + 1), Marker(w), tasks), tasks))

\* Up to the third part: the ports and the network statistics.
PortMetrics(length, metrics) ==
    LET tcp == prvWritePortsArray(Snprintf(Writer(TRUE, length), Part[1]), metrics.tcp)
        udp == prvWritePortsArray(Snprintf(tcp, Part[2]), metrics.udp)
    IN  Snprintf(udp, Part[3])

\* The rest: the connections and the custom metrics.
CustomMetrics(w, metrics) ==
    LET connections == prvWriteConnectionsArray(w, metrics.connections)
        tasks == prvWriteTaskIdsArray(Snprintf(connections, Part[4]), metrics.tasks)
    IN  Snprintf(tasks, Part[5])

\* The status, and the length of the report.
eGenerateJsonReport(length, metrics) ==
    LET w == CustomMetrics(PortMetrics(length, metrics), metrics)
    IN  [ok |-> w.ok, written |-> IF w.ok THEN length - w.remaining ELSE 0]

----------------------------------------------------------------------------
(* The reference: the length of the finished text.                         *)

Lengths(s) == FoldLeft(LAMBDA acc, n : acc + n, 0, s)

\* The elements, a comma between each two of them, and two brackets.
ArrayText(s) == Lengths(s) + 2 + (IF s = <<>> THEN 0 ELSE Len(s) - 1)

ReportText(metrics) ==
    Lengths([i \in Parts |-> Part[i]]) + ArrayText(metrics.tcp) + ArrayText(metrics.udp)
        + ArrayText(metrics.connections) + ArrayText(metrics.tasks)
=============================================================================
