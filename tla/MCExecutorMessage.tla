------------------------- MODULE MCExecutorMessage -------------------------
(***************************************************************************)
(* Instances of ExecutorMessage for TLC.                                    *)
(***************************************************************************)
EXTENDS ExecutorMessage

CONSTANT k1

Small == 0..2

MCCells ==
  Small \cup 4..44
        \cup {AUTH_ROOT, AUTH_RESULT_CODE, AUTH_SIGNATURE, AUTH_TEMPLATE_ID,
              AUTH_SCHEDULE_ID, AUTH_DATA, AUTH_SUBTYPE, AUTH_CAPABILITY_LEVEL}

\* A schedule with a verifier and one without.
MCScheduleIds == {<<1, 0>>, <<2, 0>>}
MCKeyOf == [id \in MCScheduleIds |-> IF id = <<1, 0>> THEN k1 ELSE NoKey]

\* The verifier has reported a failure and later a success, and a success for
\* another schedule; the sign is a cell that is different for each.
Report(key, id, result, sign) ==
  [key |-> key, level |-> <<1>>, template |-> <<sign, 0>>, subType |-> <<0, 2>>,
   result |-> <<result>>, id |-> id, sign |-> <<sign>>]

MCReports == {Report(k1, <<1, 0>>, 2, 4), Report(k1, <<1, 0>>, 0, 5),
              Report(k1, <<2, 0>>, 0, 6)}

\* Messages as they were reported, cut short, with one cell changed, with the
\* sign of another, and with a node in front of or behind what was signed.
Framed(data, sign) ==
  Entry(AUTH_ROOT, Entry(AUTH_DATA, data) \o Entry(AUTH_SIGNATURE, sign))

Cut == {SubSeq(MessageOf(r), 1, n) : r \in MCReports, n \in 1..25}

Changed ==
  {[MessageOf(r) EXCEPT ![n] = c] :
     r \in MCReports, n \in 1..Len(MessageOf(Report(k1, <<1, 0>>, 0, 5))),
     c \in Small \cup {AUTH_SIGNATURE}}

Mixed ==
  {Framed(DataOf(r), q.sign) : r, q \in MCReports}
  \cup {Framed(Entry(AUTH_SCHEDULE_ID, q.id) \o DataOf(r), r.sign) : r, q \in MCReports}
  \cup {Entry(AUTH_DATA, <<>>) \o MessageOf(r) : r \in MCReports}
  \cup {MessageOf(r) \o MessageOf(q) : r, q \in MCReports}
  \cup {Entry(AUTH_ROOT, Entry(AUTH_SIGNATURE, q.sign) \o Entry(AUTH_DATA, DataOf(r))
                           \o Entry(AUTH_DATA, DataOf(q))) : r, q \in MCReports}

MCMessages == {MessageOf(r) : r \in MCReports} \cup Cut \cup Changed \cup Mixed
=============================================================================
