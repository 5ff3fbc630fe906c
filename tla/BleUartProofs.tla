--------------------------- MODULE BleUartProofs ---------------------------
(* Proofs about BleUart, for every retry limit and every bound.             *)
EXTENDS BleUart, TLAPS

\* The buffer is newer than all that was sent while it is pending, and was
\* asked on the link that is up.
BufferIsNewest ==
    /\ \A i \in 1 .. Len(sent) : sent[i].resp <= resp_buf
    /\ resp_pending => /\ asker = link
                       /\ \A i \in 1 .. Len(sent) : sent[i].resp < resp_buf

Inv == /\ TypeOK /\ PendingIsScheduled /\ PointersAreHeld
       /\ BufferIsNewest /\ SentToAsker /\ SentOnceInOrder

\* The board starts with nothing sent, pending or held.
LEMMA InitInv == Init => Inv
<1> SUFFICES ASSUME Init PROVE Inv
    OBVIOUS
<1>1. 0 \in 0 .. (RESP_RETRY_MAX - 1) /\ 0 \in 0 .. 0 /\ 0 \in Nat
  BY RetryAssumption
<1>2. TypeOK
  <2>1. sent \in Seq([resp : Nat, asker : Nat, link : Nat])
    BY DEF Init
  <2>2. resp_buf \in 0 .. requests /\ ble_unlocked \in 0 .. link /\ asker \in 0 .. link
    BY <1>1 DEF Init
  <2> QED  BY <1>1, <2>1, <2>2 DEF Init, TypeOK
<1>3. PendingIsScheduled /\ PointersAreHeld
  BY DEF Init, PendingIsScheduled, PointersAreHeld, Held
<1>4. Len(sent) = 0
  BY DEF Init
<1>5. BufferIsNewest /\ SentToAsker /\ SentOnceInOrder
  BY <1>4 DEF Init, BufferIsNewest, SentToAsker, SentOnceInOrder
<1> QED  BY <1>2, <1>3, <1>5 DEF Inv

\* What has been sent, and what a send would say, do not change.
Same == UNCHANGED <<sent, resp_buf, asker, link>>

\* Without a new notification or request the facts about answers carry over.
LEMMA AnswersKept ==
    ASSUME Inv, Same, resp_pending' => resp_pending
    PROVE  BufferIsNewest' /\ SentToAsker' /\ SentOnceInOrder'
  BY DEF Same, Inv, BufferIsNewest, SentToAsker, SentOnceInOrder

\* One try of send_pending_resp() keeps the invariant, whoever makes it and
\* whether or not it succeeds.
LEMMA TryInv ==
    ASSUME Inv, NEW subscribed \in BOOLEAN, NEW scheduled \in BOOLEAN,
           send_pending_resp(subscribed, scheduled),
           subscribed = nus_tx_subscribed',
           UNCHANGED <<connVars, ble_unlocked, panicked>>
    PROVE  Inv'
<1> USE DEF Inv, connVars
<1>1. CASE ~resp_conn \/ ~resp_pending
  <2>1. ~resp_pending
    BY <1>1 DEF PendingIsScheduled
  <2>2. TypeOK'
    BY <1>1 DEF TypeOK, send_pending_resp
  <2>3. PendingIsScheduled' /\ PointersAreHeld'
    BY <1>1, <2>1 DEF send_pending_resp, PendingIsScheduled, PointersAreHeld, Held
  <2>4. BufferIsNewest' /\ SentToAsker' /\ SentOnceInOrder'
    BY <1>1, AnswersKept DEF send_pending_resp, Same
  <2> QED  BY <2>2, <2>3, <2>4
<1>2. CASE resp_conn /\ resp_pending /\ Sent(scheduled)
  <2>1. /\ UNCHANGED <<resp_conn, resp_buf, requests, link, asker>>
        /\ resp_pending' = FALSE
    BY <1>2 DEF send_pending_resp, Sent
  <2> DEFINE note == [resp |-> resp_buf, asker |-> asker, link |-> link]
  <2>2. sent' = Append(sent, note)
    BY <1>2 DEF Sent
  <2>3. note \in [resp : Nat, asker : Nat, link : Nat]
    BY DEF TypeOK
  <2>4. sent \in Seq([resp : Nat, asker : Nat, link : Nat])
    BY DEF TypeOK
  <2> HIDE DEF note
  <2>5. /\ sent' \in Seq([resp : Nat, asker : Nat, link : Nat])
        /\ Len(sent') = Len(sent) + 1 /\ Len(sent) \in Nat
        /\ \A i \in 1 .. Len(sent) : sent'[i] = sent[i]
        /\ sent'[Len(sent) + 1] = note
    BY <2>2, <2>3, <2>4
  <2>6. 0 \in 0 .. (RESP_RETRY_MAX - 1)
    BY RetryAssumption
  <2>7. TypeOK'
    BY <1>2, <2>1, <2>5, <2>6 DEF TypeOK, Sent
  <2>8. PendingIsScheduled' /\ PointersAreHeld'
    BY <2>1 DEF PendingIsScheduled, PointersAreHeld, Held
  <2>9. note.resp = resp_buf /\ note.asker = asker /\ note.link = link
    BY DEF note
  <2>10. \A i \in 1 .. Len(sent') : i \in 1 .. Len(sent) \/ i = Len(sent) + 1
    BY <2>5
  <2>11. resp_buf \in Nat /\ asker = link
    BY <1>2 DEF TypeOK, BufferIsNewest
  <2>12. BufferIsNewest'
    <3>1. \A i \in 1 .. Len(sent) : sent'[i].resp <= resp_buf
      BY <2>5 DEF BufferIsNewest
    <3>2. sent'[Len(sent) + 1].resp <= resp_buf
      BY <2>5, <2>9, <2>11
    <3>3. \A i \in 1 .. Len(sent') : sent'[i].resp <= resp_buf
      BY <2>10, <3>1, <3>2
    <3> QED  BY <2>1, <3>3 DEF BufferIsNewest
  <2>13. SentToAsker'
    <3>1. \A i \in 1 .. Len(sent') : sent'[i].link = sent'[i].asker
      BY <2>5, <2>9, <2>10, <2>11 DEF SentToAsker
    <3> QED  BY <3>1 DEF SentToAsker
  <2>14. SentOnceInOrder'
    <3> SUFFICES ASSUME NEW i \in 1 .. Len(sent'), NEW j \in 1 .. Len(sent'), i < j
                 PROVE  sent'[i].resp < sent'[j].resp
        BY DEF SentOnceInOrder
    <3>1. i \in 1 .. Len(sent)
      BY <2>5, <2>10
    <3>2. CASE j \in 1 .. Len(sent)
      BY <2>5, <3>1, <3>2 DEF SentOnceInOrder
    <3>3. CASE j = Len(sent) + 1
      BY <1>2, <2>5, <2>9, <3>1, <3>3 DEF BufferIsNewest
    <3> QED  BY <2>10, <3>2, <3>3
  <2> QED  BY <2>7, <2>8, <2>12, <2>13, <2>14
<1>3. CASE resp_conn /\ resp_pending /\ NotSent(scheduled)
  <2>1. UNCHANGED <<resp_conn, resp_buf, requests, link, asker, sent>>
    BY <1>3 DEF send_pending_resp, NotSent
  <2>2. resp_pending' \in BOOLEAN /\ send_retry_work' \in BOOLEAN
    BY <1>3 DEF NotSent, TypeOK
  <2>3. retry_cnt' \in 0 .. (RESP_RETRY_MAX - 1)
    <3>1. /\ retry_cnt \in Nat /\ RESP_RETRY_MAX \in Nat \ {0}
      BY RetryAssumption DEF TypeOK
    <3>2. \/ retry_cnt + 1 < RESP_RETRY_MAX /\ retry_cnt' = retry_cnt + 1
          \/ retry_cnt' = 0
      <4>1. CASE retry_cnt + 1 >= RESP_RETRY_MAX
        BY <1>3, <4>1 DEF NotSent
      <4>2. CASE ~(retry_cnt + 1 >= RESP_RETRY_MAX)
        <5>1. retry_cnt' = retry_cnt + 1
          BY <1>3, <4>2 DEF NotSent
        <5> QED  BY <3>1, <4>2, <5>1
      <4> QED  BY <4>1, <4>2
    <3> QED  BY <3>1, <3>2
  <2>4. TypeOK'
    BY <2>1, <2>2, <2>3 DEF TypeOK
  <2>5. PendingIsScheduled' /\ PointersAreHeld'
    BY <1>3, <2>1 DEF NotSent, PendingIsScheduled, PointersAreHeld, Held
  <2>6. BufferIsNewest' /\ SentToAsker' /\ SentOnceInOrder'
    BY <1>3, <2>1, AnswersKept DEF Same
  <2> QED  BY <2>4, <2>5, <2>6
<1> QED  BY <1>1, <1>2, <1>3 DEF send_pending_resp

\* What was sent are notifications.
LEMMA SentTyped ==
    ASSUME TypeOK
    PROVE  \A i \in 1 .. Len(sent) : sent[i] \in [resp : Nat, asker : Nat, link : Nat]
<1> DEFINE Note == [resp : Nat, asker : Nat, link : Nat]
<1>1. sent \in Seq(Note)
  BY DEF TypeOK
<1> HIDE DEF Note
<1>2. \A i \in 1 .. Len(sent) : sent[i] \in Note
  BY <1>1
<1> QED  BY <1>2 DEF Note

\* Every step keeps the invariant.
LEMMA StepInv == Inv /\ [Next]_vars => Inv'
<1> SUFFICES ASSUME Inv, [Next]_vars PROVE Inv'
    OBVIOUS
<1> USE DEF Inv, connVars, respVars, observed
<1>1. CASE send_retry_handler
  BY <1>1, TryInv DEF send_retry_handler, TypeOK
<1>2. ASSUME NEW enabled \in BOOLEAN, nus_send_enabled_cb(enabled) PROVE Inv'
  <2>1. CASE enabled
    BY <1>2, <2>1, TryInv DEF nus_send_enabled_cb, TypeOK
  <2>2. CASE ~enabled
    <3>1. TypeOK'
      BY <1>2, <2>2 DEF nus_send_enabled_cb, TypeOK
    <3>2. PendingIsScheduled' /\ PointersAreHeld'
      BY <1>2, <2>2 DEF nus_send_enabled_cb, PendingIsScheduled, PointersAreHeld, Held
    <3>3. BufferIsNewest' /\ SentToAsker' /\ SentOnceInOrder'
      BY <1>2, <2>2, AnswersKept DEF nus_send_enabled_cb, Same
    <3> QED  BY <3>1, <3>2, <3>3
  <2> QED  BY <2>1, <2>2
<1>3. CASE bt_receive_cb
  <2>1. 0 \in 0 .. (RESP_RETRY_MAX - 1) /\ 0 \in Nat
    BY RetryAssumption
  <2>2. /\ requests' \in Nat /\ resp_buf' \in 0 .. requests'
        /\ ble_unlocked' \in 0 .. link' /\ asker' \in 0 .. link'
    BY <1>3 DEF bt_receive_cb, TypeOK
  <2>3. TypeOK'
    BY <1>3, <2>1, <2>2 DEF bt_receive_cb, TypeOK
  <2>4. PendingIsScheduled' /\ PointersAreHeld'
    BY <1>3 DEF bt_receive_cb, PendingIsScheduled, PointersAreHeld, Held, TypeOK
  <2>6. \A i \in 1 .. Len(sent) : sent[i].resp < resp_buf'
    <3>1. resp_buf' = requests + 1 /\ resp_buf <= requests /\ requests \in Nat /\ resp_buf \in Nat
      BY <1>3 DEF bt_receive_cb, TypeOK
    <3>2. \A i \in 1 .. Len(sent) : sent[i].resp \in Nat /\ sent[i].resp <= resp_buf
      <4>1. \A i \in 1 .. Len(sent) : sent[i] \in [resp : Nat, asker : Nat, link : Nat]
        BY SentTyped
      <4> QED  BY <4>1 DEF BufferIsNewest
    <3> QED  BY <3>1, <3>2
  <2>7. \A i \in 1 .. Len(sent) : sent[i].resp \in Nat /\ resp_buf' \in Nat
    <3>1. \A i \in 1 .. Len(sent) : sent[i] \in [resp : Nat, asker : Nat, link : Nat]
      BY SentTyped
    <3> QED  BY <2>2, <3>1
  <2>8. BufferIsNewest' /\ SentToAsker' /\ SentOnceInOrder'
    BY <1>3, <2>6, <2>7 DEF bt_receive_cb, BufferIsNewest, SentToAsker, SentOnceInOrder
  <2> QED  BY <2>3, <2>4, <2>8
<1>4. CASE connected \/ ConnectFailed
  <2>1. ~resp_pending /\ ~resp_pending' /\ ble_unlocked = 0 /\ ~current_conn /\ ~auth_conn
    BY <1>4 DEF connected, ConnectFailed, respVars, PendingIsScheduled, PointersAreHeld, TypeOK
  <2>2. UNCHANGED <<sent, resp_buf, asker, requests, retry_cnt>> /\ link' = link + 1
    BY <1>4 DEF connected, ConnectFailed, respVars
  <2>3. refs' \in Nat /\ link' \in Nat /\ asker' \in 0 .. link' /\ ble_unlocked' \in 0 .. link'
    BY <1>4, <2>2 DEF connected, ConnectFailed, TypeOK
  <2>4. TypeOK'
    BY <1>4, <2>2, <2>3 DEF connected, ConnectFailed, TypeOK
  <2>5. PendingIsScheduled'
    BY <2>1 DEF PendingIsScheduled
  <2>6. PointersAreHeld'
    BY <1>4, <2>1 DEF connected, ConnectFailed, PointersAreHeld, Held, TypeOK
  <2>7. BufferIsNewest' /\ SentToAsker' /\ SentOnceInOrder'
    BY <2>1, <2>2 DEF BufferIsNewest, SentToAsker, SentOnceInOrder
  <2> QED  BY <2>4, <2>5, <2>6, <2>7
<1>5. CASE disconnected
  <2>1. refs' = refs - Held /\ refs' \in Nat
    BY <1>5 DEF disconnected, PointersAreHeld, Held, TypeOK
  <2>2. 0 \in 0 .. (RESP_RETRY_MAX - 1) /\ 0 \in 0 .. link
    BY RetryAssumption DEF TypeOK
  <2>3. TypeOK'
    BY <1>5, <2>1, <2>2 DEF disconnected, TypeOK
  <2>4. PendingIsScheduled' /\ PointersAreHeld'
    BY <1>5, <2>1 DEF disconnected, PendingIsScheduled, PointersAreHeld, Held, TypeOK
  <2>5. BufferIsNewest' /\ SentToAsker' /\ SentOnceInOrder'
    BY <1>5, AnswersKept DEF disconnected, Same
  <2> QED  BY <2>3, <2>4, <2>5
<1>6. CASE recycled_cb \/ adv_work_handler
  <2>1. TypeOK'
    BY <1>6 DEF recycled_cb, adv_work_handler, TypeOK
  <2>2. PendingIsScheduled' /\ PointersAreHeld'
    BY <1>6 DEF recycled_cb, adv_work_handler, PendingIsScheduled, PointersAreHeld, Held
  <2>3. BufferIsNewest' /\ SentToAsker' /\ SentOnceInOrder'
    BY <1>6, AnswersKept DEF recycled_cb, adv_work_handler, Same
  <2> QED  BY <2>1, <2>2, <2>3
<1>7. CASE auth_passkey_confirm \/ button_changed \/ BothButtons
  <2>1. refs' \in Nat /\ refs' >= Held'
    BY <1>7 DEF auth_passkey_confirm, button_changed, BothButtons, PointersAreHeld, Held, TypeOK
  <2>2. TypeOK'
    BY <1>7, <2>1 DEF auth_passkey_confirm, button_changed, BothButtons, TypeOK
  <2>3. PendingIsScheduled' /\ PointersAreHeld'
    BY <1>7, <2>1 DEF auth_passkey_confirm, button_changed, BothButtons,
       PendingIsScheduled, PointersAreHeld
  <2>4. BufferIsNewest' /\ SentToAsker' /\ SentOnceInOrder'
    BY <1>7, AnswersKept DEF auth_passkey_confirm, button_changed, BothButtons, Same
  <2> QED  BY <2>2, <2>3, <2>4
<1>8. CASE UNCHANGED vars
  <2>1. TypeOK'
    BY <1>8 DEF vars, TypeOK
  <2>2. PendingIsScheduled' /\ PointersAreHeld'
    BY <1>8 DEF vars, PendingIsScheduled, PointersAreHeld, Held
  <2>3. BufferIsNewest' /\ SentToAsker' /\ SentOnceInOrder'
    BY <1>8, AnswersKept DEF vars, Same
  <2> QED  BY <2>1, <2>2, <2>3
<1> QED
  BY <1>1, <1>2, <1>3, <1>4, <1>5, <1>6, <1>7, <1>8 DEF Next, Work, Peer

\* The invariant as a fact about behaviours.
LEMMA AlwaysInv == Spec => []Inv
  BY InitInv, StepInv, PTL DEF Spec

\* Every variable keeps to its set; the application never drops a reference
\* it does not have and never counts past the retry limit (ble_uart.c:77).
THEOREM TypeCorrect == Spec => []TypeOK
<1>1. Inv => TypeOK
  BY DEF Inv
<1> QED  BY <1>1, AlwaysInv, PTL

\* An answer goes to the connection that asked, however the timer, the
\* subscription and reconnects interleave (ble_uart.c:165).
THEOREM AnswersGoToAsker == Spec => []SentToAsker
<1>1. Inv => SentToAsker
  BY DEF Inv
<1> QED  BY <1>1, AlwaysInv, PTL

\* No answer is notified twice or after a later one (ble_uart.c:87).
THEOREM AnswersInOrder == Spec => []SentOnceInOrder
<1>1. Inv => SentOnceInOrder
  BY DEF Inv
<1> QED  BY <1>1, AlwaysInv, PTL

\* A pending answer always has a try coming (ble_uart.c:83, 324).
THEOREM PendingAlwaysScheduled == Spec => []PendingIsScheduled
<1>1. Inv => PendingIsScheduled
  BY DEF Inv
<1> QED  BY <1>1, AlwaysInv, PTL

\* Pointers never outlive references, nor a session its link, however
\* prompts, replies and disconnects follow each other (ble_uart.c:152, 170, 282).
THEOREM PointersAlwaysHeld == Spec => []PointersAreHeld
<1>1. Inv => PointersAreHeld
  BY DEF Inv
<1> QED  BY <1>1, AlwaysInv, PTL
=============================================================================
