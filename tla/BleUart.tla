------------------------------ MODULE BleUart ------------------------------
(* ble_uart.c: the one BLE connection, the answers sent back over it as     *)
(* notifications, and the references on the connection object that pairing  *)
(* takes.  Callbacks of the Bluetooth stack and work items run on           *)
(* cooperative threads, so each is one action.  An answer is the number of  *)
(* the request it belongs to, a connection the number of its link.          *)
EXTENDS Integers, Sequences

CONSTANTS RESP_RETRY_MAX,
          MaxReq,       \* bound: requests received
          MaxLink,      \* bound: connections
          MaxRefs       \* bound: references on the connection object

ASSUME RetryAssumption == RESP_RETRY_MAX \in Nat \ {0}
ASSUME BoundAssumption == MaxReq \in Nat /\ MaxLink \in Nat /\ MaxRefs \in Nat

VARIABLES conn,                 \* the connection object: free, up, or down but held
          adv,                  \* advertising: off, queued (adv_work), on, failed
          refs,                 \* references the application holds on it
          current_conn, auth_conn,  \* whether the pointers are set
          nus_tx_subscribed,
          resp_pending, resp_conn,
          resp_buf,             \* the request whose answer it holds
          retry_cnt,
          send_retry_work,      \* whether it is scheduled
          ble_unlocked,         \* the link a session was opened on, or 0
          panicked,             \* an assertion of the stack stopped the board
          \* What an observer knows; no guard but a bound reads these.
          requests,             \* requests received
          link,                 \* connections so far
          asker,                \* the link resp_buf was asked on
          sent                  \* notifications: [resp, asker, link]

connVars == <<conn, adv, refs, current_conn, auth_conn>>
respVars == <<resp_pending, resp_conn, resp_buf, retry_cnt, send_retry_work>>
observed == <<requests, link, asker, sent>>
vars == <<connVars, nus_tx_subscribed, respVars, ble_unlocked, panicked, observed>>
-----------------------------------------------------------------------------
(* send_pending_resp(): one try.  scheduled is whether the retry work was   *)
(* already scheduled; k_work_schedule() leaves it alone if it was.          *)
(* bt_nus_send() fails without a subscription and may fail with one.        *)

\* Mutation: the answer stays pending after it was sent.
Sent_stays_pending(scheduled) ==
    /\ retry_cnt' = 0
    /\ send_retry_work' = TRUE
    /\ sent' = Append(sent, [resp |-> resp_buf, asker |-> asker, link |-> link])
    /\ UNCHANGED resp_pending

Sent(scheduled) ==
    /\ resp_pending' = FALSE
    /\ retry_cnt' = 0
    /\ send_retry_work' = scheduled
    /\ sent' = Append(sent, [resp |-> resp_buf, asker |-> asker, link |-> link])

\* Mutation: a failed try is not followed by another.
NotSent_no_retry(scheduled) ==
    /\ IF retry_cnt + 1 >= RESP_RETRY_MAX
       THEN resp_pending' = FALSE /\ retry_cnt' = 0
       ELSE retry_cnt' = retry_cnt + 1 /\ UNCHANGED resp_pending
    /\ send_retry_work' = scheduled
    /\ UNCHANGED sent

NotSent(scheduled) ==
    /\ IF retry_cnt + 1 >= RESP_RETRY_MAX
       THEN /\ resp_pending' = FALSE /\ retry_cnt' = 0
            /\ send_retry_work' = scheduled
       ELSE /\ retry_cnt' = retry_cnt + 1
            /\ send_retry_work' = TRUE
            /\ UNCHANGED resp_pending
    /\ UNCHANGED sent

send_pending_resp(subscribed, scheduled) ==
    /\ IF ~resp_conn \/ ~resp_pending
       THEN send_retry_work' = scheduled /\ UNCHANGED <<resp_pending, retry_cnt, sent>>
       ELSE (subscribed /\ Sent(scheduled)) \/ NotSent(scheduled)
    /\ UNCHANGED <<resp_conn, resp_buf, requests, link, asker>>

send_retry_handler ==
    /\ send_retry_work
    /\ send_pending_resp(nus_tx_subscribed, FALSE)
    /\ UNCHANGED <<connVars, nus_tx_subscribed, ble_unlocked, panicked>>

nus_send_enabled_cb(enabled) ==
    /\ conn = "up"
    /\ nus_tx_subscribed' = enabled
    /\ IF enabled THEN send_pending_resp(TRUE, send_retry_work)
       ELSE UNCHANGED <<respVars, observed>>
    /\ UNCHANGED <<connVars, ble_unlocked, panicked>>

\* Mutation: without a subscription the first try is left to the subscription.
receive_waits_for_cccd ==
    /\ conn = "up" /\ requests < MaxReq
    /\ ble_unlocked' \in {ble_unlocked, link, 0}
    /\ requests' = requests + 1
    /\ resp_buf' = requests + 1 /\ asker' = link
    /\ resp_conn' = TRUE /\ resp_pending' = TRUE
    /\ send_retry_work' = (send_retry_work \/ nus_tx_subscribed)
    /\ UNCHANGED <<connVars, nus_tx_subscribed, retry_cnt, panicked, link, sent>>

\* A request that is answered; it may open or close the session.  The answer
\* replaces one that was not sent yet.
bt_receive_cb ==
    /\ conn = "up" /\ requests < MaxReq
    /\ ble_unlocked' \in {ble_unlocked, link, 0}
    /\ requests' = requests + 1
    /\ resp_buf' = requests + 1 /\ asker' = link
    /\ resp_conn' = TRUE /\ resp_pending' = TRUE
    /\ send_retry_work' = TRUE
    /\ UNCHANGED <<connVars, nus_tx_subscribed, retry_cnt, panicked, link, sent>>
-----------------------------------------------------------------------------
(* The connection.                                                          *)

connected ==
    /\ conn = "free" /\ adv = "on" /\ link < MaxLink
    /\ conn' = "up" /\ adv' = "off" /\ link' = link + 1
    /\ current_conn' = TRUE /\ refs' = refs + 1
    /\ UNCHANGED <<auth_conn, nus_tx_subscribed, respVars, ble_unlocked, panicked,
                   requests, asker, sent>>

\* connected() with an error: the stack drops the object.
ConnectFailed ==
    /\ conn = "free" /\ adv = "on" /\ link < MaxLink
    /\ conn' = "down" /\ adv' = "off" /\ link' = link + 1
    /\ UNCHANGED <<refs, current_conn, auth_conn, nus_tx_subscribed, respVars,
                   ble_unlocked, panicked, requests, asker, sent>>

\* Mutation: the answer survives the connection.
disconnected_keeps_answer ==
    /\ conn = "up"
    /\ conn' = "down"
    /\ refs' = refs - (IF auth_conn THEN 1 ELSE 0) - (IF current_conn THEN 1 ELSE 0)
    /\ auth_conn' = FALSE /\ current_conn' = FALSE
    /\ nus_tx_subscribed' = FALSE
    /\ ble_unlocked' = 0
    /\ UNCHANGED <<adv, respVars, panicked, observed>>

\* Mutation: auth_conn is released whether it is set or not.
disconnected_unrefs_twice ==
    /\ conn = "up"
    /\ conn' = "down"
    /\ refs' = refs - 2
    /\ auth_conn' = FALSE /\ current_conn' = FALSE
    /\ resp_conn' = FALSE /\ resp_pending' = FALSE
    /\ nus_tx_subscribed' = FALSE
    /\ ble_unlocked' = 0
    /\ UNCHANGED <<adv, resp_buf, retry_cnt, send_retry_work, panicked,
                   requests, link, asker, sent>>

\* With app_auth_ble_disconnect().
disconnected ==
    /\ conn = "up"
    /\ conn' = "down"
    /\ refs' = refs - (IF auth_conn THEN 1 ELSE 0) - (IF current_conn THEN 1 ELSE 0)
    /\ auth_conn' = FALSE /\ current_conn' = FALSE
    /\ resp_conn' = FALSE /\ resp_pending' = FALSE
    /\ nus_tx_subscribed' = FALSE
    /\ ble_unlocked' = 0
    /\ UNCHANGED <<adv, resp_buf, retry_cnt, send_retry_work, panicked,
                   requests, link, asker, sent>>

\* Mutation: advertising is not started again.
recycled_without_adv ==
    /\ conn = "down" /\ refs = 0
    /\ conn' = "free"
    /\ UNCHANGED <<adv, refs, current_conn, auth_conn, nus_tx_subscribed, respVars,
                   ble_unlocked, panicked, observed>>

\* The stack reuses the object once nobody holds it.
recycled_cb ==
    /\ conn = "down" /\ refs = 0
    /\ conn' = "free" /\ adv' = "queued"
    /\ UNCHANGED <<refs, current_conn, auth_conn, nus_tx_subscribed, respVars,
                   ble_unlocked, panicked, observed>>

adv_work_handler ==
    /\ adv = "queued"
    /\ adv' \in {"on", "failed"}
    /\ UNCHANGED <<conn, refs, current_conn, auth_conn, nus_tx_subscribed, respVars,
                   ble_unlocked, panicked, observed>>
-----------------------------------------------------------------------------
(* Pairing.  The end of a pairing, failed or not, leaves auth_conn alone.   *)

\* A pairing that starts over sets auth_conn again.
auth_passkey_confirm ==
    /\ conn = "up" /\ refs < MaxRefs
    /\ auth_conn' = TRUE /\ refs' = refs + 1
    /\ UNCHANGED <<conn, adv, current_conn, nus_tx_subscribed, respVars, ble_unlocked,
                   panicked, observed>>

\* Mutation: auth_conn is not cleared.
button_keeps_auth_conn ==
    /\ auth_conn
    /\ refs' = refs - 1
    /\ UNCHANGED <<conn, adv, current_conn, auth_conn, nus_tx_subscribed, respVars,
                   ble_unlocked, panicked, observed>>

\* One button: num_comp_reply().
button_changed ==
    /\ auth_conn
    /\ auth_conn' = FALSE /\ refs' = refs - 1
    /\ UNCHANGED <<conn, adv, current_conn, nus_tx_subscribed, respVars, ble_unlocked,
                   panicked, observed>>

\* Both: the second reply is for the connection the first one has released,
\* and bt_conn_unref(NULL) runs into an assertion (CONFIG_ASSERT=y).
BothButtons ==
    /\ auth_conn
    /\ auth_conn' = FALSE /\ refs' = refs - 1
    /\ panicked' = TRUE
    /\ UNCHANGED <<conn, adv, current_conn, nus_tx_subscribed, respVars, ble_unlocked,
                   observed>>
-----------------------------------------------------------------------------
\* After ble_uart_init().
Init ==
    /\ conn = "free" /\ adv = "queued" /\ refs = 0
    /\ current_conn = FALSE /\ auth_conn = FALSE
    /\ nus_tx_subscribed = FALSE
    /\ resp_pending = FALSE /\ resp_conn = FALSE /\ resp_buf = 0
    /\ retry_cnt = 0 /\ send_retry_work = FALSE
    /\ ble_unlocked = 0 /\ panicked = FALSE
    /\ requests = 0 /\ link = 0 /\ asker = 0 /\ sent = <<>>

Work == send_retry_handler \/ adv_work_handler \/ recycled_cb

Peer == \/ \E enabled \in BOOLEAN \ {nus_tx_subscribed} : nus_send_enabled_cb(enabled)
        \/ bt_receive_cb
        \/ connected \/ ConnectFailed \/ disconnected
        \/ auth_passkey_confirm

Next == ~panicked /\ (Work \/ Peer \/ button_changed \/ BothButtons)

\* The system work queue runs every item that is due.
Fairness == /\ WF_vars(~panicked /\ send_retry_handler)
            /\ WF_vars(~panicked /\ adv_work_handler)
            /\ WF_vars(~panicked /\ recycled_cb)

Spec == Init /\ [][Next]_vars /\ Fairness
-----------------------------------------------------------------------------
(* Properties.                                                              *)

TypeOK ==
    /\ conn \in {"free", "up", "down"}
    /\ adv \in {"off", "queued", "on", "failed"}
    /\ refs \in Nat
    /\ current_conn \in BOOLEAN /\ auth_conn \in BOOLEAN
    /\ nus_tx_subscribed \in BOOLEAN
    /\ resp_pending \in BOOLEAN /\ resp_conn \in BOOLEAN
    /\ resp_buf \in 0 .. requests
    /\ retry_cnt \in 0 .. (RESP_RETRY_MAX - 1)
    /\ send_retry_work \in BOOLEAN
    /\ ble_unlocked \in 0 .. link
    /\ panicked \in BOOLEAN
    /\ requests \in Nat /\ link \in Nat /\ asker \in 0 .. link
    /\ sent \in Seq([resp : Nat, asker : Nat, link : Nat])

\* An answer only ever goes to the connection that asked, however requests,
\* disconnects, reconnects and the retry timer interleave: resp_conn is a bare
\* pointer to an object the next connection reuses (ble_uart.c:58, 165).
SentToAsker == \A i \in 1 .. Len(sent) : sent[i].link = sent[i].asker

\* No answer is notified twice, and none after the answer to a later request,
\* although the timer and the subscription both send (ble_uart.c:87, 104).
SentOnceInOrder ==
    \A i, j \in 1 .. Len(sent) : i < j => sent[i].resp < sent[j].resp

\* Nothing waits for a try that will not come: a pending answer has its
\* connection and a scheduled try (ble_uart.c:83, 324).
PendingIsScheduled == resp_pending => resp_conn /\ conn = "up" /\ send_retry_work

\* The pointers never outlive their references, so that no unref is one too
\* many, however prompts, replies and disconnects follow each other; and a
\* session never outlives its link (ble_uart.c:152, 170, 282).
Held == (IF current_conn THEN 1 ELSE 0) + (IF auth_conn THEN 1 ELSE 0)

PointersAreHeld ==
    /\ refs >= Held
    /\ current_conn \/ auth_conn => conn = "up"
    /\ ble_unlocked # 0 => conn = "up" /\ ble_unlocked = link

\* Every answer is sent or given up in the end, unless the board has stopped
\* (ble_uart.c:76).
AnswerIsSettled == resp_pending ~> ~resp_pending \/ panicked

\* A subscribed peer gets its answer unless it disconnects, unsubscribes or
\* asks again first, or the tries are used up (ble_uart.c:74).
AnswerArrives ==
    \A n \in 1 .. MaxReq :
        resp_pending /\ resp_buf = n ~>
            \/ \E i \in 1 .. Len(sent) : sent[i].resp = n
            \/ resp_buf # n \/ conn # "up" \/ ~nus_tx_subscribed
            \/ retry_cnt = RESP_RETRY_MAX - 1 \/ panicked

\* Once nobody holds the connection object of a link that has gone, the device
\* advertises again as far as the controller lets it (ble_uart.c:176).
AdvertisesAgain == conn = "down" /\ refs = 0 ~> adv \in {"on", "failed"} \/ panicked
-----------------------------------------------------------------------------
(* What comments and messages of the source say and the code does not do.   *)

\* ble_uart.c:54, 328: an answer waits for the subscription.
WaitsForSubscription ==
    [][resp_pending /\ ~resp_pending' /\ sent' = sent /\ conn' = conn
       => nus_tx_subscribed]_vars

\* ble_uart.c:175: a disconnect completes, and the connection object becomes
\* available again (a board that has stopped is left out).
DisconnectCompletes == conn = "down" ~> conn = "free" \/ panicked
=============================================================================
