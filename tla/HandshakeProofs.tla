-------------------------- MODULE HandshakeProofs --------------------------
(***************************************************************************)
(* Proofs about Handshake, for every set of configurations, every capacity *)
(* of the raw connection, any number of altered messages and whichever     *)
(* ends may time out.                                                      *)
(*                                                                         *)
(* Both agreement theorems rest on the Finished messages: a tag is made    *)
(* over the sender's transcript and under its secret, a sealed message     *)
(* cannot be altered, and a reader that accepts the tag compares it with   *)
(* its own transcript and secret.  The inductive invariant IInv says what  *)
(* the messages in flight say of the end that wrote them, and how far each *)
(* end's transcript has grown at each point of the handshake.              *)
(***************************************************************************)
EXTENDS Handshake, TLAPS

Hello == {"ClientHello", "ServerHello"}

\* A sequence, over whatever set its elements come from.
IsLog(s) == Len(s) \in Nat /\ s = [i \in 1 .. Len(s) |-> s[i]]

\* A record as Send writes it.
IsWire(w) == w = [key |-> w.key, ok |-> w.ok, body |-> w.body]

\* The messages an end has written and the other has not read.
Bodies(e) == {chan[e][i].body : i \in 1 .. Len(chan[e])}

-----------------------------------------------------------------------------
(* The inductive invariant *)

Domains ==
  /\ DOMAIN pc = End /\ DOMAIN peerShare = End
  /\ DOMAIN mutual = End /\ DOMAIN appKey = End

Logs ==
  /\ DOMAIN chan = End /\ DOMAIN transcript = End
  /\ \A e \in End : IsLog(transcript[e]) /\ IsLog(chan[e])
  /\ \A e \in End : \A i \in 1 .. Len(chan[e]) : IsWire(chan[e][i])

\* How many messages are in an end's transcript when it is at a label.
ServerCount ==
  LET n == Len(transcript["server"])
      l == pc["server"]
  IN  /\ l \in {"start", "ClientHello"} => n = 0
      /\ l = "send ServerHello" => n = 1
      /\ l = "send EncryptedExtensions" => n = 2
      /\ l = "send Certificate" => n = 3
      /\ l = "send CertificateVerify" => n = 4
      /\ l = "send Finished" => n = 5
      /\ l \in {"Certificate", "CertificateVerify", "Finished", "done"} => n >= 6

ClientCount ==
  LET n == Len(transcript["client"])
      l == pc["client"]
  IN  /\ l = "start" => n = 0
      /\ l = "ServerHello" => n = 1
      /\ l = "EncryptedExtensions" => n = 2
      /\ l = "Certificate" => n = 3
      /\ l = "CertificateVerify" => n = 4
      /\ l = "Finished" => n = 5
      /\ l \in {"send Certificate", "send CertificateVerify", "send Finished", "done"}
           => n >= 6

\* A Finished message of the server in flight is the sixth of its transcript, made
\* over the five before it and under the secret the server still holds.
ServerFinished ==
  \A m \in Bodies("server") : m.type = "Finished" =>
    /\ Len(transcript["server"]) >= 6 /\ transcript["server"][6] = m
    /\ m.val.key = <<Secret("server"), "server">>
    /\ Len(m.val.over) = 5
    /\ \A i \in 1 .. 5 : m.val.over[i] = transcript["server"][i]

\* What the server announced is what it will do.
ServerAnnounced ==
  Len(transcript["server"]) >= 3 => transcript["server"][3].val = mutual["server"]

\* Once the server has read the ClientHello its own demand is in force, and past the
\* client's certificate the demand has been met.
ServerMutual ==
  /\ Len(transcript["server"]) >= 1 /\ cfg["server"].mutual => mutual["server"]
  /\ pc["server"] \in {"CertificateVerify", "Finished", "done"} /\ mutual["server"]
       => cfg["server"].accepts /\ cfg["client"].prepares

\* What the client has checked by the time it has read the third, the fourth and
\* the sixth message.
ClientChecked ==
  /\ Len(transcript["client"]) >= 3 =>
       /\ transcript["client"][3].val = mutual["client"]
       /\ cfg["client"].mutual => mutual["client"]
  /\ Len(transcript["client"]) >= 4 => cfg["client"].accepts

ClientAgreed ==
  Len(transcript["client"]) >= 6 =>
    /\ Len(transcript["server"]) >= 6
    /\ \A i \in 1 .. 6 : transcript["client"][i] = transcript["server"][i]
    /\ Secret("client") = Secret("server")

\* A client whose Finished message is in flight is done, with the keys of the
\* transcript that ends in this message.
ClientFinished ==
  \A m \in Bodies("client") : m.type = "Finished" =>
    /\ pc["client"] = "done"
    /\ m.val.key = <<Secret("client"), "client">>
    /\ appKey["client"] = AppKey(Secret("client"), Append(m.val.over, m))

ClientCertificate ==
  \A m \in Bodies("client") : m.type = "Certificate" => cfg["client"].prepares

IInv ==
  /\ Domains /\ Logs /\ ServerCount /\ ClientCount
  /\ ServerFinished /\ ServerAnnounced /\ ServerMutual
  /\ ClientChecked /\ ClientAgreed /\ ClientFinished /\ ClientCertificate
  /\ ServerDoneMeansAgreement

-----------------------------------------------------------------------------
(* Sequences and functions on the two ends *)

\* A log is a sequence, over the set of its elements or any larger set ...
LEMMA LogIsSeq ==
  ASSUME NEW s, IsLog(s), NEW T
  PROVE  s \in Seq({s[i] : i \in 1 .. Len(s)} \cup T)
BY DEF IsLog

\* ... and a sequence is a log.
LEMMA SeqIsLog ==
  ASSUME NEW S, NEW s \in Seq(S)
  PROVE  IsLog(s)
BY DEF IsLog

\* Appending to a log keeps what was there.
LEMMA AppendLog ==
  ASSUME NEW s, IsLog(s), NEW x
  PROVE  /\ IsLog(Append(s, x)) /\ Len(Append(s, x)) = Len(s) + 1
         /\ \A i \in 1 .. Len(s) : Append(s, x)[i] = s[i]
         /\ Append(s, x)[Len(s) + 1] = x
<1> DEFINE S == {s[i] : i \in 1 .. Len(s)} \cup {x}
<1>1. s \in Seq(S)
  BY LogIsSeq, Zenon
<1>2. x \in S
  BY Zenon
<1> HIDE DEF S
<1>3. Append(s, x) \in Seq(S)
  BY <1>1, <1>2
<1>4. /\ Len(Append(s, x)) = Len(s) + 1
      /\ \A i \in 1 .. Len(s) : Append(s, x)[i] = s[i]
      /\ Append(s, x)[Len(s) + 1] = x
  BY <1>1, <1>2
<1> QED
  BY <1>3, <1>4, SeqIsLog, Zenon

\* Taking the first element off a log leaves the others.
LEMMA TailLog ==
  ASSUME NEW s, IsLog(s), s # << >>
  PROVE  /\ IsLog(Tail(s)) /\ Len(Tail(s)) = Len(s) - 1 /\ Len(s) \in Nat \ {0}
         /\ \A i \in 1 .. Len(Tail(s)) : Tail(s)[i] = s[i + 1]
         /\ Head(s) = s[1]
<1> DEFINE S == {s[i] : i \in 1 .. Len(s)} \cup {}
<1>1. s \in Seq(S)
  BY LogIsSeq, Zenon
<1> HIDE DEF S
<1>2. Tail(s) \in Seq(S) /\ Len(s) \in Nat /\ Len(s) # 0
  BY <1>1
<1>3. /\ Len(Tail(s)) = Len(s) - 1
      /\ \A i \in 1 .. Len(Tail(s)) : Tail(s)[i] = s[i + 1]
      /\ Head(s) = s[1]
  BY <1>1, <1>2
<1> QED
  BY <1>2, <1>3, SeqIsLog, Zenon

\* Replacing an element of a log leaves the others.
LEMMA SetLog ==
  ASSUME NEW s, IsLog(s), NEW i \in 1 .. Len(s), NEW x
  PROVE  /\ IsLog(Set(s, i, x)) /\ Len(Set(s, i, x)) = Len(s)
         /\ Set(s, i, x)[i] = x
         /\ \A j \in 1 .. Len(s) : j # i => Set(s, i, x)[j] = s[j]
<1> DEFINE S == {s[j] : j \in 1 .. Len(s)} \cup {x}
<1>1. s \in Seq(S)
  BY LogIsSeq, Zenon
<1>2. x \in S
  BY Zenon
<1> HIDE DEF S
<1>3. Set(s, i, x) \in Seq(S)
  BY <1>1, <1>2 DEF Set
<1>4. DOMAIN Set(s, i, x) = 1 .. Len(s) /\ Len(s) \in Nat
  BY <1>1 DEF Set
<1>5. Len(Set(s, i, x)) = Len(s)
  BY <1>3, <1>4
<1>6. /\ Set(s, i, x)[i] = x
      /\ \A j \in 1 .. Len(s) : j # i => Set(s, i, x)[j] = s[j]
  BY <1>1 DEF Set
<1>7. IsLog(Set(s, i, x))
  BY <1>3, SeqIsLog, Zenon
<1> QED
  BY <1>5, <1>6, <1>7, Zenon

\* Changing what one end has leaves the other end's alone.
LEMMA SetEnd ==
  ASSUME NEW f, DOMAIN f = End, NEW e \in End, NEW x
  PROVE  /\ DOMAIN Set(f, e, x) = End /\ Set(f, e, x)[e] = x
         /\ Peer(e) \in End /\ Peer(e) # e /\ Peer(Peer(e)) = e
         /\ Set(f, e, x)[Peer(e)] = f[Peer(e)]
         /\ \A d \in End : d = e \/ d = Peer(e)
BY Zenon DEF Set, End, Peer

-----------------------------------------------------------------------------
(* What sending, reading and altering a message do to the logs *)

\* An end enters message m into its transcript.
Enters(e, m) ==
  /\ Len(transcript[e]) \in Nat /\ Len(transcript'[e]) = Len(transcript[e]) + 1
  /\ \A i \in 1 .. Len(transcript[e]) : transcript'[e][i] = transcript[e][i]
  /\ transcript'[e][Len(transcript[e]) + 1] = m

\* Send adds the message to what is in flight and to the sender's transcript.
LEMMA SendFacts ==
  ASSUME Logs, NEW e \in End, NEW k, NEW m, Send(e, k, m)
  PROVE  /\ Logs' /\ Enters(e, m) /\ transcript'[e] = Append(transcript[e], m)
         /\ transcript'[Peer(e)] = transcript[Peer(e)]
         /\ Bodies(e)' = Bodies(e) \cup {m} /\ Bodies(Peer(e))' = Bodies(Peer(e))
<1> DEFINE w == [key |-> k, ok |-> TRUE, body |-> m]
<1>1. /\ DOMAIN chan = End /\ DOMAIN transcript = End
      /\ IsLog(transcript[e]) /\ IsLog(chan[e])
      /\ IsLog(transcript[Peer(e)]) /\ IsLog(chan[Peer(e)])
  BY Zenon DEF Logs, Peer, End
<1>2. chan' = Set(chan, e, Append(chan[e], w))
      /\ transcript' = Set(transcript, e, Append(transcript[e], m))
  BY Zenon DEF Send
<1>3. IsWire(w) /\ w.body = m
  BY Zenon DEF IsWire
<1> HIDE DEF w
<1>4. /\ DOMAIN chan' = End /\ chan'[e] = Append(chan[e], w)
      /\ chan'[Peer(e)] = chan[Peer(e)]
  BY <1>1, <1>2, Zenon DEF Set, End, Peer
<1>5. /\ DOMAIN transcript' = End /\ transcript'[e] = Append(transcript[e], m)
      /\ transcript'[Peer(e)] = transcript[Peer(e)]
  BY <1>1, <1>2, Zenon DEF Set, End, Peer
<1>6. \A d \in End : d = e \/ d = Peer(e)
  BY DEF Peer, End
<1>7. IsLog(transcript'[e]) /\ Enters(e, m)
  BY <1>1, <1>5, AppendLog DEF Enters, IsLog
<1>8. /\ IsLog(chan'[e]) /\ Len(chan'[e]) = Len(chan[e]) + 1 /\ Len(chan[e]) \in Nat
      /\ \A i \in 1 .. Len(chan[e]) : chan'[e][i] = chan[e][i]
      /\ chan'[e][Len(chan[e]) + 1] = w
  BY <1>1, <1>4, AppendLog DEF IsLog
<1>9. \A i \in 1 .. Len(chan'[e]) : i \in 1 .. Len(chan[e]) \/ i = Len(chan[e]) + 1
  BY <1>8
<1>10. Logs'
  <2>1. \A i \in 1 .. Len(chan'[e]) : IsWire(chan'[e][i])
    BY <1>3, <1>8, <1>9, Zenon DEF Logs
  <2>2. \A i \in 1 .. Len(chan'[Peer(e)]) : IsWire(chan'[Peer(e)][i])
    BY <1>4, Peer(e) \in End, Zenon DEF Logs, Peer, End
  <2> QED
    BY <1>1, <1>4, <1>5, <1>6, <1>7, <1>8, <2>1, <2>2, Zenon DEF Logs
<1>11. Bodies(e)' = Bodies(e) \cup {m}
  BY <1>3, <1>8, <1>9, SMTT(30) DEF Bodies
<1>12. Bodies(Peer(e))' = Bodies(Peer(e))
  BY <1>4, Zenon DEF Bodies
<1> QED
  BY <1>5, <1>7, <1>10, <1>11, <1>12, Zenon

\* A message taken off the connection was in flight, and nothing is added.
LEMMA TakeFacts ==
  ASSUME Logs, NEW e \in End, chan[Peer(e)] # << >>,
         chan' = Set(chan, Peer(e), Tail(chan[Peer(e)]))
  PROVE  /\ Head(chan[Peer(e)]).body \in Bodies(Peer(e))
         /\ Bodies(Peer(e))' \subseteq Bodies(Peer(e)) /\ Bodies(e)' = Bodies(e)
         /\ DOMAIN chan' = End
         /\ \A d \in End : IsLog(chan'[d])
         /\ \A d \in End : \A i \in 1 .. Len(chan'[d]) : IsWire(chan'[d][i])
<1> DEFINE p == Peer(e)
<1>1. /\ DOMAIN chan = End /\ IsLog(chan[e]) /\ IsLog(chan[p]) /\ p \in End
  BY Zenon DEF Logs, Peer, End
<1>2. /\ DOMAIN chan' = End /\ chan'[p] = Tail(chan[p]) /\ chan'[e] = chan[e]
      /\ \A d \in End : d = e \/ d = p
  BY <1>1, SetEnd DEF Peer, End
<1>3. /\ IsLog(Tail(chan[p])) /\ Len(Tail(chan[p])) = Len(chan[p]) - 1
      /\ Len(chan[p]) \in Nat \ {0}
      /\ \A i \in 1 .. Len(Tail(chan[p])) : Tail(chan[p])[i] = chan[p][i + 1]
      /\ Head(chan[p]) = chan[p][1]
  BY <1>1, TailLog, Zenon
<1>4. /\ \A i \in 1 .. Len(Tail(chan[p])) : i + 1 \in 1 .. Len(chan[p])
      /\ \A i \in 1 .. Len(chan'[p]) : i + 1 \in 1 .. Len(chan[p])
                                       /\ chan'[p][i] = chan[p][i + 1]
  <2> HIDE DEF p
  <2>1. \A i \in 1 .. Len(Tail(chan[p])) : i + 1 \in 1 .. Len(chan[p])
    <3> DEFINE n == Len(chan[p])
               k == Len(Tail(chan[p]))
    <3>1. n \in Nat /\ k = n - 1
      BY <1>3, Zenon
    <3> HIDE DEF n, k
    <3>2. \A i \in 1 .. k : i + 1 \in 1 .. n
      BY <3>1
    <3> QED
      BY <3>2, Zenon DEF n, k
  <2> QED
    BY <1>2, <1>3, <2>1, Zenon
<1>5. Head(chan[p]).body \in Bodies(p)
  BY <1>3 DEF Bodies
<1>6. Bodies(p)' \subseteq Bodies(p)
  BY <1>4 DEF Bodies
<1>7. Bodies(e)' = Bodies(e)
  BY <1>2, Zenon DEF Bodies
<1>8. \A d \in End : IsLog(chan'[d])
  BY <1>1, <1>2, <1>3, Zenon
<1>9. \A d \in End : \A i \in 1 .. Len(chan'[d]) : IsWire(chan'[d][i])
  BY <1>1, <1>2, <1>4, Zenon DEF Logs
<1> QED
  BY <1>2, <1>5, <1>6, <1>7, <1>8, <1>9, Zenon

\* Read takes the message and enters it into the reader's transcript.
LEMMA ReadFacts ==
  ASSUME Logs, NEW e \in End, NEW t, Read(e, t)
  PROVE  LET m == Head(chan[Peer(e)]).body
         IN  /\ Logs' /\ Enters(e, m) /\ m \in Bodies(Peer(e))
             /\ transcript'[e] = Append(transcript[e], m)
             /\ transcript'[Peer(e)] = transcript[Peer(e)]
             /\ Bodies(Peer(e))' \subseteq Bodies(Peer(e)) /\ Bodies(e)' = Bodies(e)
<1> DEFINE m == Head(chan[Peer(e)]).body
<1>1. /\ chan[Peer(e)] # << >> /\ chan' = Set(chan, Peer(e), Tail(chan[Peer(e)]))
      /\ transcript' = Set(transcript, e, Append(transcript[e], m))
  BY Zenon DEF Read, Waiting
<1> HIDE DEF m
<1>2. /\ DOMAIN transcript = End /\ IsLog(transcript[e]) /\ IsLog(transcript[Peer(e)])
  BY Zenon DEF Logs, Peer, End
<1>3. /\ DOMAIN transcript' = End /\ transcript'[e] = Append(transcript[e], m)
      /\ transcript'[Peer(e)] = transcript[Peer(e)]
      /\ \A d \in End : d = e \/ d = Peer(e)
  BY <1>1, <1>2, Zenon DEF Set, End, Peer
<1>4. IsLog(transcript'[e]) /\ Enters(e, m)
  BY <1>2, <1>3, AppendLog DEF Enters, IsLog
<1>5. Logs'
  BY <1>1, <1>2, <1>3, <1>4, TakeFacts, Zenon DEF Logs
<1> QED
  BY <1>1, <1>3, <1>4, <1>5, TakeFacts, Zenon DEF m

\* An altered message is a hello, or has the contents it had.
LEMMA AlteredFacts ==
  ASSUME NEW v, IsWire(v), NEW w \in Altered(v)
  PROVE  /\ IsWire(w)
         /\ w.body = v.body \/ w.body.type \in Hello
<1>1. CASE v.body.type = "ClientHello"
  BY <1>1 DEF Altered, IsWire, Msg, Hello
<1>2. CASE v.body.type = "ServerHello"
  BY <1>2 DEF Altered, IsWire, Msg, Hello
<1>3. CASE v.body.type \notin Hello
  BY <1>3 DEF Altered, IsWire, Hello
<1> QED
  BY <1>1, <1>2, <1>3, Zenon DEF Hello

LEMMA AlterFacts ==
  ASSUME Logs, NEW e \in End, Alter(e)
  PROVE  /\ Logs' /\ transcript' = transcript
         /\ \A d \in End : \A m \in Bodies(d)' : m \in Bodies(d) \/ m.type \in Hello
<1>0. PICK i \in 1 .. Len(chan[e]) : \E w \in Altered(chan[e][i]) :
        chan' = Set(chan, e, Set(chan[e], i, w))
  BY Zenon DEF Alter
<1>1. PICK w \in Altered(chan[e][i]) : chan' = Set(chan, e, Set(chan[e], i, w))
  BY <1>0, Zenon
<1>2. DOMAIN chan = End /\ IsLog(chan[e])
  BY Zenon DEF Logs
<1>3. /\ DOMAIN chan' = End /\ chan'[e] = Set(chan[e], i, w)
      /\ \A d \in End : d # e => chan'[d] = chan[d]
  <2> DEFINE q == Set(chan[e], i, w)
  <2>1. chan' = Set(chan, e, q)
    BY <1>1, Zenon
  <2> HIDE DEF q
  <2>2. /\ DOMAIN chan' = End /\ chan'[e] = q
        /\ \A d \in End : d # e => chan'[d] = chan[d]
    BY <1>2, <2>1, Zenon DEF Set
  <2> QED
    BY <2>2, Zenon DEF q
<1>4. /\ IsLog(chan'[e]) /\ Len(chan'[e]) = Len(chan[e]) /\ chan'[e][i] = w
      /\ \A j \in 1 .. Len(chan[e]) : j # i => chan'[e][j] = chan[e][j]
  BY <1>2, <1>3, SetLog
<1>5. /\ IsWire(w)
      /\ w.body = chan[e][i].body \/ w.body.type \in Hello
  BY AlteredFacts, Zenon DEF Logs
<1>6. \A j \in 1 .. Len(chan'[e]) : IsWire(chan'[e][j])
  BY <1>4, <1>5, Zenon DEF Logs
<1>7. transcript' = transcript
  BY Zenon DEF Alter
<1>8. Logs'
  BY <1>3, <1>4, <1>6, <1>7, Zenon DEF Logs
<1>9. ASSUME NEW m \in Bodies(e)'
      PROVE  m \in Bodies(e) \/ m.type \in Hello
  <2>1. PICK j \in 1 .. Len(chan'[e]) : m = chan'[e][j].body
    BY Zenon DEF Bodies
  <2>2. CASE j = i
    BY <1>4, <1>5, <2>1, <2>2, Zenon DEF Bodies
  <2>3. CASE j # i
    BY <1>4, <2>1, <2>3, Zenon DEF Bodies
  <2> QED
    BY <2>2, <2>3, Zenon
<1>10. \A d \in End : d # e => Bodies(d)' = Bodies(d)
  BY <1>3, Zenon DEF Bodies
<1> QED
  BY <1>7, <1>8, <1>9, <1>10, Zenon

-----------------------------------------------------------------------------
LEMMA InitIInv == Init => IInv
<1> SUFFICES ASSUME Init PROVE IInv
  BY Zenon
<1> USE DEF Init
<1>1. Domains /\ pc["server"] = "start" /\ pc["client"] = "start"
  BY Zenon DEF Domains, End
<1>2. \A e \in End : transcript[e] = << >> /\ chan[e] = << >>
  BY Zenon
<1>3. Logs
  BY <1>2 DEF Logs, IsLog
<1>4. Len(transcript["server"]) = 0 /\ Len(transcript["client"]) = 0
  BY <1>2, Zenon DEF End
<1>5. Bodies("server") = {} /\ Bodies("client") = {}
  BY <1>2 DEF End, Bodies
<1> HIDE DEF Init
<1>6. ServerCount /\ ClientCount
  BY <1>1, <1>4, Zenon DEF ServerCount, ClientCount
<1>7. /\ ~(Len(transcript["server"]) >= 1) /\ ~(Len(transcript["server"]) >= 3)
      /\ ~(Len(transcript["client"]) >= 3) /\ ~(Len(transcript["client"]) >= 4)
      /\ ~(Len(transcript["client"]) >= 6)
  BY <1>4
<1>8. pc["server"] \notin {"CertificateVerify", "Finished", "done"}
  BY <1>1, Zenon
<1> QED
  BY <1>1, <1>3, <1>5, <1>6, <1>7, <1>8, Zenon
  DEF IInv, ServerFinished, ServerAnnounced, ServerMutual, ClientChecked,
      ClientAgreed, ClientFinished, ClientCertificate, ServerDoneMeansAgreement

-----------------------------------------------------------------------------
(* An end that does not move keeps its part of the invariant *)

Still(e) ==
  /\ pc'[e] = pc[e] /\ transcript'[e] = transcript[e] /\ peerShare'[e] = peerShare[e]
  /\ mutual'[e] = mutual[e] /\ appKey'[e] = appKey[e]

\* Nothing of the end's is in flight that was not, but for altered hellos.
NoNews(e) == \A m \in Bodies(e)' : m \in Bodies(e) \/ m.type \in Hello

LEMMA SameSecret ==
  ASSUME NEW e \in End, peerShare'[e] = peerShare[e]
  PROVE  Secret(e)' = Secret(e)
BY Zenon DEF Secret

\* Goto moves one end.
LEMMA GotoFacts ==
  ASSUME Domains, NEW e \in End, NEW l, Goto(e, l)
  PROVE  /\ DOMAIN pc' = End /\ pc'[e] = l
         /\ \A d \in End : d # e => pc'[d] = pc[d]
BY Zenon DEF Domains, Goto, Set

LEMMA ServerStill ==
  ASSUME IInv, cfg' = cfg, Still("server"), NoNews("server")
  PROVE  ServerCount' /\ ServerFinished' /\ ServerAnnounced' /\ ServerMutual'
<1>1. Secret("server")' = Secret("server")
  BY SameSecret, Zenon DEF Still, End
<1>2. ServerCount'
  BY Zenon DEF IInv, ServerCount, Still
<1>3. ServerFinished'
  BY <1>1 DEF IInv, ServerFinished, Still, NoNews, Hello
<1>4. ServerAnnounced'
  BY Zenon DEF IInv, ServerAnnounced, Still
<1>5. ServerMutual'
  BY Zenon DEF IInv, ServerMutual, Still
<1> QED
  BY <1>2, <1>3, <1>4, <1>5, Zenon

LEMMA ClientStill ==
  ASSUME IInv, cfg' = cfg, Still("client"), NoNews("client")
  PROVE  ClientCount' /\ ClientChecked' /\ ClientFinished' /\ ClientCertificate'
<1>1. Secret("client")' = Secret("client")
  BY SameSecret, Zenon DEF Still, End
<1>2. ClientCount'
  BY Zenon DEF IInv, ClientCount, Still
<1>3. ClientChecked'
  BY Zenon DEF IInv, ClientChecked, Still
<1>4. ClientFinished'
  BY <1>1, Zenon DEF IInv, ClientFinished, Still, NoNews, Hello
<1>5. ClientCertificate'
  <2> SUFFICES ASSUME NEW m \in Bodies("client")', m.type = "Certificate"
               PROVE  cfg'["client"].prepares
    BY Zenon DEF ClientCertificate
  <2>1. m \in Bodies("client")
    BY Zenon DEF NoNews, Hello
  <2> QED
    BY <2>1, Zenon DEF IInv, ClientCertificate
<1> QED
  BY <1>2, <1>3, <1>4, <1>5, Zenon

\* A step of the client alone, before it is done.
LEMMA ClientMoves ==
  ASSUME IInv, cfg' = cfg, Still("server"), NoNews("server"), pc["client"] # "done",
         Domains', Logs', ClientCount', ClientChecked', ClientAgreed', ClientFinished',
         ClientCertificate'
  PROVE  IInv'
<1>1. ServerCount' /\ ServerFinished' /\ ServerAnnounced' /\ ServerMutual'
  BY ServerStill, Zenon
<1>2. ServerDoneMeansAgreement'
  BY Zenon DEF IInv, ServerDoneMeansAgreement, Still
<1> QED
  BY <1>1, <1>2, Zenon DEF IInv

\* What the client checked stays in its transcript.
LEMMA ClientCheckedStays ==
  ASSUME ClientChecked, NEW m, Enters("client", m), mutual'["client"] = mutual["client"],
         cfg' = cfg, Len(transcript["client"]) >= 4
  PROVE  ClientChecked'
<1>1. /\ Len(transcript["client"]) >= 3 /\ 3 \in 1 .. Len(transcript["client"])
  BY DEF Enters
<1>2. transcript'["client"][3] = transcript["client"][3]
  BY <1>1, Zenon DEF Enters
<1> QED
  BY <1>1, <1>2, Zenon DEF ClientChecked

LEMMA ClientAgreedStays ==
  ASSUME ClientAgreed, NEW m, Enters("client", m), Still("server"),
         peerShare'["client"] = peerShare["client"], Len(transcript["client"]) >= 6
  PROVE  ClientAgreed'
<1>1. Secret("server")' = Secret("server") /\ Secret("client")' = Secret("client")
  BY SameSecret, Zenon DEF Still, End
<1> QED
  BY <1>1, SMTT(30) DEF ClientAgreed, Enters, Still

\* From the server's Finished on the client's transcript only needs six messages.
LEMMA ClientCountLate ==
  ASSUME Len(transcript["client"])' >= 6,
         pc'["client"] \in {"send Certificate", "send CertificateVerify", "send Finished", "done"}
  PROVE  ClientCount'
BY Zenon DEF ClientCount

-----------------------------------------------------------------------------
(* The client's steps *)

\* What every message the client sends has in common.
LEMMA ClientSends ==
  ASSUME IInv, NEW k, NEW m, NEW l, Send("client", k, m), Goto("client", l),
         UNCHANGED <<peerShare, mutual>>, DOMAIN appKey' = End,
         appKey'["server"] = appKey["server"]
  PROVE  /\ Domains' /\ Logs' /\ Still("server") /\ NoNews("server")
         /\ Enters("client", m) /\ Bodies("client")' = Bodies("client") \cup {m}
         /\ pc'["client"] = l
<1>1. "client" \in End /\ "server" \in End /\ Peer("client") = "server"
  BY Zenon DEF End, Peer
<1>2. Domains /\ Logs
  BY Zenon DEF IInv
<1>3. DOMAIN pc' = End /\ pc'["client"] = l /\ pc'["server"] = pc["server"]
  BY <1>1, <1>2, GotoFacts, Zenon
<1>4. /\ Logs' /\ Enters("client", m) /\ transcript'["server"] = transcript["server"]
      /\ Bodies("client")' = Bodies("client") \cup {m} /\ Bodies("server")' = Bodies("server")
  BY <1>1, <1>2, SendFacts, Zenon
<1>5. Domains'
  BY <1>2, <1>3, Zenon DEF Domains
<1> QED
  BY <1>3, <1>4, <1>5, Zenon DEF Still, NoNews

\* What every message the client reads has in common.
LEMMA ClientReads ==
  ASSUME IInv, NEW t, NEW l, Read("client", t), Goto("client", l),
         cfg' = cfg, appKey' = appKey,
         DOMAIN peerShare' = End, peerShare'["server"] = peerShare["server"],
         DOMAIN mutual' = End, mutual'["server"] = mutual["server"]
  PROVE  LET m == Head(chan["server"]).body
         IN  /\ Domains' /\ Logs' /\ Still("server") /\ NoNews("server")
             /\ Enters("client", m) /\ m \in Bodies("server") /\ m.type = t
             /\ pc["client"] = t /\ pc'["client"] = l
             /\ pc["client"] # "done" /\ ClientFinished' /\ ClientCertificate'
             /\ Acceptable("client", Head(chan["server"]))
<1>1. "client" \in End /\ "server" \in End /\ Peer("client") = "server"
  BY Zenon DEF End, Peer
<1>2. Domains /\ Logs /\ ClientFinished /\ ClientCertificate
  BY Zenon DEF IInv
<1>3. DOMAIN pc' = End /\ pc'["client"] = l /\ pc'["server"] = pc["server"]
  BY <1>1, <1>2, GotoFacts, Zenon
<1>4. /\ Logs' /\ Enters("client", Head(chan["server"]).body)
      /\ Head(chan["server"]).body \in Bodies("server")
      /\ transcript'["server"] = transcript["server"]
      /\ Bodies("server")' \subseteq Bodies("server") /\ Bodies("client")' = Bodies("client")
  BY <1>1, <1>2, ReadFacts, Zenon
<1>5. /\ pc["client"] = t /\ pc["client"] # "done"
      /\ Acceptable("client", Head(chan["server"])) /\ Head(chan["server"]).body.type = t
  BY <1>1, Zenon DEF Read, Waiting, Reading, Acceptable
<1>6. Domains'
  BY <1>2, <1>3, Zenon DEF Domains
<1>7. ClientFinished'
  BY <1>2, <1>4, <1>5, Zenon DEF ClientFinished
<1>8. ClientCertificate'
  BY <1>2, <1>4, Zenon DEF ClientCertificate
<1> QED
  BY <1>3, <1>4, <1>5, <1>6, <1>7, <1>8, Zenon DEF Still, NoNews

LEMMA ClientSendClientHelloIInv ==
  ASSUME IInv, ClientSendClientHello
  PROVE  IInv'
<1> DEFINE m == Msg("ClientHello", [share |-> "client", flag |-> cfg["client"].mutual])
<1>1. m.type = "ClientHello"
  BY Zenon DEF Msg
<1>2. /\ pc["client"] = "start" /\ Send("client", Plain, m) /\ Goto("client", "ServerHello")
      /\ UNCHANGED <<cfg, peerShare, mutual, appKey>>
  BY Zenon DEF ClientSendClientHello
<1> HIDE DEF m
<1>3. DOMAIN appKey' = End
  BY <1>2, Zenon DEF IInv, Domains
<1>4. /\ Domains' /\ Logs' /\ Still("server") /\ NoNews("server")
      /\ Enters("client", m) /\ Bodies("client")' = Bodies("client") \cup {m}
      /\ pc'["client"] = "ServerHello"
  BY <1>2, <1>3, ClientSends, Zenon
<1>5. Len(transcript'["client"]) = 1
  BY <1>2, <1>4 DEF IInv, ClientCount, Enters
<1>6. ClientCount' /\ ClientAgreed'
  BY <1>4, <1>5 DEF ClientCount, ClientAgreed
<1>7. ~(Len(transcript'["client"]) >= 3) /\ ~(Len(transcript'["client"]) >= 4)
  BY <1>5
<1>8. ClientChecked'
  BY <1>7, Zenon DEF ClientChecked
<1>9. ClientFinished'
  BY <1>1, <1>2, <1>4, Zenon DEF IInv, ClientFinished
<1>10. ClientCertificate'
  BY <1>1, <1>2, <1>4, Zenon DEF IInv, ClientCertificate
<1>11. pc["client"] # "done"
  BY <1>2, Zenon
<1> QED
  BY <1>2, <1>4, <1>6, <1>8, <1>9, <1>10, <1>11, ClientMoves, Zenon

LEMMA ClientReadServerHelloIInv ==
  ASSUME IInv, ClientReadServerHello
  PROVE  IInv'
<1>1. /\ Read("client", "ServerHello") /\ Goto("client", "EncryptedExtensions")
      /\ UNCHANGED <<cfg, mutual, appKey>>
      /\ DOMAIN peerShare' = End /\ peerShare'["server"] = peerShare["server"]
      /\ DOMAIN mutual' = End
  BY Zenon DEF ClientReadServerHello, Set, IInv, Domains, End
<1> DEFINE m == Head(chan["server"]).body
<1>2. /\ Domains' /\ Logs' /\ Still("server") /\ NoNews("server")
      /\ Enters("client", m) /\ pc["client"] = "ServerHello"
      /\ pc'["client"] = "EncryptedExtensions"
      /\ pc["client"] # "done" /\ ClientFinished' /\ ClientCertificate'
  BY <1>1, ClientReads, Zenon
<1> HIDE DEF m
<1>3. Len(transcript'["client"]) = 2
  <2>1. Len(transcript["client"]) = 1
    BY <1>2, Zenon DEF IInv, ClientCount
  <2> QED
    BY <1>2, <2>1 DEF Enters
<1>4. ClientCount' /\ ClientAgreed'
  BY <1>2, <1>3 DEF ClientCount, ClientAgreed
<1>5. ~(Len(transcript'["client"]) >= 3) /\ ~(Len(transcript'["client"]) >= 4)
  BY <1>3
<1>6. ClientChecked'
  BY <1>5, Zenon DEF ClientChecked
<1> QED
  BY <1>1, <1>2, <1>4, <1>6, ClientMoves, Zenon

LEMMA ClientReadEncryptedExtensionsIInv ==
  ASSUME IInv, ClientReadEncryptedExtensions
  PROVE  IInv'
<1> DEFINE m == Head(chan["server"]).body
<1>1. /\ Read("client", "EncryptedExtensions") /\ Goto("client", "Certificate")
      /\ UNCHANGED <<cfg, peerShare, appKey>>
      /\ DOMAIN mutual' = End /\ mutual'["server"] = mutual["server"]
      /\ DOMAIN peerShare' = End
  BY Zenon DEF ClientReadEncryptedExtensions, Set, IInv, Domains, End
<1>2. mutual'["client"] = m.val
  BY Zenon DEF ClientReadEncryptedExtensions, Set, IInv, Domains, End, Val, Peer
<1>3. /\ Domains' /\ Logs' /\ Still("server") /\ NoNews("server")
      /\ Enters("client", m) /\ pc["client"] = "EncryptedExtensions"
      /\ pc'["client"] = "Certificate"
      /\ pc["client"] # "done" /\ ClientFinished' /\ ClientCertificate'
      /\ Acceptable("client", Head(chan["server"]))
  BY <1>1, ClientReads, Zenon
<1>4. ExtensionsOK(m)
  BY <1>3, Zenon DEF Acceptable
<1> HIDE DEF m
<1>5. Len(transcript'["client"]) = 3 /\ transcript'["client"][3] = m
  <2>1. Len(transcript["client"]) = 2
    BY <1>3, Zenon DEF IInv, ClientCount
  <2> QED
    BY <1>3, <2>1 DEF Enters
<1>6. ClientCount' /\ ClientAgreed'
  BY <1>3, <1>5 DEF ClientCount, ClientAgreed
<1>7. ~(Len(transcript'["client"]) >= 4)
  BY <1>5
<1>8. cfg["client"].mutual => m.val
  BY <1>4, Zenon DEF ExtensionsOK
<1>9. ClientChecked'
  BY <1>1, <1>2, <1>5, <1>7, <1>8, Zenon DEF ClientChecked
<1> QED
  BY <1>1, <1>3, <1>6, <1>9, ClientMoves, Zenon

LEMMA ClientReadCertificateIInv ==
  ASSUME IInv, ClientReadCertificate
  PROVE  IInv'
<1> DEFINE m == Head(chan["server"]).body
<1>1. /\ Read("client", "Certificate") /\ Goto("client", "CertificateVerify")
      /\ UNCHANGED <<cfg, peerShare, mutual, appKey>>
      /\ DOMAIN mutual' = End /\ DOMAIN peerShare' = End
  BY Zenon DEF ClientReadCertificate, IInv, Domains
<1>2. /\ Domains' /\ Logs' /\ Still("server") /\ NoNews("server")
      /\ Enters("client", m) /\ pc["client"] = "Certificate"
      /\ pc'["client"] = "CertificateVerify"
      /\ pc["client"] # "done" /\ ClientFinished' /\ ClientCertificate'
      /\ Acceptable("client", Head(chan["server"]))
  BY <1>1, ClientReads, Zenon
<1>3. cfg["client"].accepts
  <2>1. CertificateOK("client")
    BY <1>2, Zenon DEF Acceptable
  <2> QED
    BY <2>1, Zenon DEF CertificateOK
<1> HIDE DEF m
<1>4. Len(transcript["client"]) = 3
  BY <1>2, Zenon DEF IInv, ClientCount
<1>5. /\ Len(transcript'["client"]) = 4 /\ transcript'["client"][3] = transcript["client"][3]
      /\ Len(transcript["client"]) >= 3
  BY <1>2, <1>4 DEF Enters
<1>6. ClientCount' /\ ClientAgreed'
  BY <1>2, <1>5 DEF ClientCount, ClientAgreed
<1>7. ClientChecked'
  BY <1>1, <1>3, <1>5, Zenon DEF IInv, ClientChecked
<1> QED
  BY <1>1, <1>2, <1>6, <1>7, ClientMoves, Zenon

LEMMA ClientReadCertificateVerifyIInv ==
  ASSUME IInv, ClientReadCertificateVerify
  PROVE  IInv'
<1> DEFINE m == Head(chan["server"]).body
<1>1. /\ Read("client", "CertificateVerify") /\ Goto("client", "Finished")
      /\ UNCHANGED <<cfg, peerShare, mutual, appKey>>
      /\ DOMAIN mutual' = End /\ DOMAIN peerShare' = End
  BY Zenon DEF ClientReadCertificateVerify, IInv, Domains
<1>2. /\ Domains' /\ Logs' /\ Still("server") /\ NoNews("server")
      /\ Enters("client", m) /\ pc["client"] = "CertificateVerify"
      /\ pc'["client"] = "Finished"
      /\ pc["client"] # "done" /\ ClientFinished' /\ ClientCertificate'
  BY <1>1, ClientReads, Zenon
<1> HIDE DEF m
<1>3. Len(transcript["client"]) = 4
  BY <1>2, Zenon DEF IInv, ClientCount
<1>4. Len(transcript'["client"]) = 5 /\ Len(transcript["client"]) >= 4
  BY <1>2, <1>3 DEF Enters
<1>5. ClientCount' /\ ClientAgreed'
  BY <1>2, <1>4 DEF ClientCount, ClientAgreed
<1>6. ClientChecked'
  BY <1>1, <1>2, <1>4, ClientCheckedStays, Zenon DEF IInv
<1> QED
  BY <1>1, <1>2, <1>5, <1>6, ClientMoves, Zenon

\* The step that makes the agreement: the tag the client accepts is over its own five
\* messages and under its own secret, and it was made over the server's.
LEMMA ClientReadFinishedIInv ==
  ASSUME IInv, ClientReadFinished
  PROVE  IInv'
<1> DEFINE m == Head(chan["server"]).body
           l == IF mutual["client"] THEN "send Certificate" ELSE "send Finished"
<1>1. /\ Read("client", "Finished") /\ Goto("client", l)
      /\ UNCHANGED <<cfg, peerShare, mutual, appKey>>
      /\ DOMAIN mutual' = End /\ DOMAIN peerShare' = End
  BY Zenon DEF ClientReadFinished, IInv, Domains
<1>2. l \in {"send Certificate", "send Finished"}
  BY Zenon
<1> HIDE DEF l
<1>3. /\ Domains' /\ Logs' /\ Still("server") /\ NoNews("server")
      /\ Enters("client", m) /\ pc["client"] = "Finished" /\ m.type = "Finished"
      /\ pc'["client"] = l /\ m \in Bodies("server")
      /\ pc["client"] # "done" /\ ClientFinished' /\ ClientCertificate'
      /\ Acceptable("client", Head(chan["server"]))
  BY <1>1, ClientReads, Zenon
<1>4. FinishedOK("client", m)
  BY <1>3, Zenon DEF Acceptable
<1>5. m.val.key = <<Secret("client"), "server">> /\ m.val.over = transcript["client"]
  BY <1>4 DEF FinishedOK, FinishedTag, Peer
<1> HIDE DEF m
<1>6. Len(transcript["client"]) = 5
  BY <1>3, Zenon DEF IInv, ClientCount
<1>7. /\ Len(transcript'["client"]) = 6 /\ Len(transcript["client"]) >= 4
      /\ Len(transcript'["client"]) >= 6 /\ transcript'["client"][6] = m
      /\ \A i \in 1 .. 5 : transcript'["client"][i] = transcript["client"][i]
  <2>1. Enters("client", m)
    BY <1>3, Zenon
  <2> QED
    BY <1>6, <2>1 DEF Enters
<1>8. ClientCount'
  BY <1>2, <1>3, <1>7, ClientCountLate, Zenon
<1>9. ClientChecked'
  BY <1>1, <1>3, <1>7, ClientCheckedStays, Zenon DEF IInv
<1>10. ClientAgreed'
  <2>1. /\ Len(transcript["server"]) >= 6 /\ transcript["server"][6] = m
        /\ m.val.key = <<Secret("server"), "server">>
        /\ \A i \in 1 .. 5 : m.val.over[i] = transcript["server"][i]
    BY <1>3, Zenon DEF IInv, ServerFinished
  <2>2. Secret("client") = Secret("server")
    BY <1>5, <2>1
  <2>3. Secret("client")' = Secret("client") /\ Secret("server")' = Secret("server")
    BY <1>1, SameSecret, Zenon DEF End
  <2>4. transcript'["server"] = transcript["server"]
    BY <1>3, Zenon DEF Still
  <2>5. \A i \in 1 .. 6 : i \in 1 .. 5 \/ i = 6
    OBVIOUS
  <2>6. \A i \in 1 .. 6 : transcript'["client"][i] = transcript["server"][i]
    BY <1>5, <1>7, <2>1, <2>5, Zenon
  <2> QED
    BY <2>1, <2>2, <2>3, <2>4, <2>6, Zenon DEF ClientAgreed
<1> QED
  BY <1>1, <1>3, <1>8, <1>9, <1>10, ClientMoves, Zenon

LEMMA ClientSendCertificateIInv ==
  ASSUME IInv, ClientSendCertificate
  PROVE  IInv'
<1> DEFINE m == Msg("Certificate", "client")
<1>1. m.type = "Certificate"
  BY Zenon DEF Msg
<1>2. /\ pc["client"] = "send Certificate" /\ Send("client", Secret("client"), m)
      /\ Goto("client", "send CertificateVerify")
      /\ UNCHANGED <<cfg, peerShare, mutual, appKey>>
  BY Zenon DEF ClientSendCertificate
<1>3. cfg["client"].prepares
  BY Zenon DEF ClientSendCertificate
<1> HIDE DEF m
<1>4. DOMAIN appKey' = End
  BY <1>2, Zenon DEF IInv, Domains
<1>5. /\ Domains' /\ Logs' /\ Still("server") /\ NoNews("server")
      /\ Enters("client", m) /\ Bodies("client")' = Bodies("client") \cup {m}
      /\ pc'["client"] = "send CertificateVerify"
  BY <1>2, <1>4, ClientSends, Zenon
<1>6. /\ Len(transcript["client"]) >= 6 /\ Len(transcript["client"]) >= 4
      /\ Len(transcript'["client"]) >= 6
  <2>1. Len(transcript["client"]) >= 6
    BY <1>2, Zenon DEF IInv, ClientCount
  <2>2. Enters("client", m)
    BY <1>5, Zenon
  <2> QED
    BY <2>1, <2>2 DEF Enters
<1>7. ClientCount'
  BY <1>5, <1>6, ClientCountLate, Zenon
<1>8. ClientChecked'
  BY <1>2, <1>5, <1>6, ClientCheckedStays, Zenon DEF IInv
<1>9. ClientAgreed'
  BY <1>2, <1>5, <1>6, ClientAgreedStays, Zenon DEF IInv
<1>10. ClientFinished'
  BY <1>1, <1>2, <1>5, Zenon DEF IInv, ClientFinished
<1>11. ClientCertificate'
  BY <1>2, <1>3, Zenon DEF ClientCertificate
<1>12. pc["client"] # "done"
  BY <1>2, Zenon
<1> QED
  BY <1>2, <1>5, <1>7, <1>8, <1>9, <1>10, <1>11, <1>12, ClientMoves, Zenon

LEMMA ClientSendCertificateVerifyIInv ==
  ASSUME IInv, ClientSendCertificateVerify
  PROVE  IInv'
<1> DEFINE m == Msg("CertificateVerify", Signature("client", transcript["client"]))
<1>1. m.type = "CertificateVerify"
  BY Zenon DEF Msg
<1>2. /\ pc["client"] = "send CertificateVerify" /\ Send("client", Secret("client"), m)
      /\ Goto("client", "send Finished")
      /\ UNCHANGED <<cfg, peerShare, mutual, appKey>>
  BY Zenon DEF ClientSendCertificateVerify
<1> HIDE DEF m
<1>3. DOMAIN appKey' = End
  BY <1>2, Zenon DEF IInv, Domains
<1>4. /\ Domains' /\ Logs' /\ Still("server") /\ NoNews("server")
      /\ Enters("client", m) /\ Bodies("client")' = Bodies("client") \cup {m}
      /\ pc'["client"] = "send Finished"
  BY <1>2, <1>3, ClientSends, Zenon
<1>5. /\ Len(transcript["client"]) >= 6 /\ Len(transcript["client"]) >= 4
      /\ Len(transcript'["client"]) >= 6
  <2>1. Len(transcript["client"]) >= 6
    BY <1>2, Zenon DEF IInv, ClientCount
  <2>2. Enters("client", m)
    BY <1>4, Zenon
  <2> QED
    BY <2>1, <2>2 DEF Enters
<1>6. ClientCount'
  BY <1>4, <1>5, ClientCountLate, Zenon
<1>7. ClientChecked'
  BY <1>2, <1>4, <1>5, ClientCheckedStays, Zenon DEF IInv
<1>8. ClientAgreed'
  BY <1>2, <1>4, <1>5, ClientAgreedStays, Zenon DEF IInv
<1>9. ClientFinished'
  BY <1>1, <1>2, <1>4, Zenon DEF IInv, ClientFinished
<1>10. ClientCertificate'
  BY <1>1, <1>2, <1>4, Zenon DEF IInv, ClientCertificate
<1>11. pc["client"] # "done"
  BY <1>2, Zenon
<1> QED
  BY <1>2, <1>4, <1>6, <1>7, <1>8, <1>9, <1>10, <1>11, ClientMoves, Zenon

\* The client's keys are those of the transcript its Finished message completes.
LEMMA ClientSendFinishedIInv ==
  ASSUME IInv, ClientSendFinished
  PROVE  IInv'
<1> DEFINE tag == FinishedTag("client", Secret("client"), transcript["client"])
           m == Msg("Finished", tag)
<1>1. /\ m.type = "Finished" /\ m.val.over = transcript["client"]
      /\ m.val.key = <<Secret("client"), "client">>
  BY Zenon DEF Msg, FinishedTag
<1>2. /\ pc["client"] = "send Finished" /\ Send("client", Secret("client"), m)
      /\ Goto("client", "done") /\ UNCHANGED <<cfg, peerShare, mutual>>
      /\ appKey' = Set(appKey, "client", AppKey(Secret("client"), transcript'["client"]))
  BY Zenon DEF ClientSendFinished
<1> HIDE DEF m
<1>3. /\ DOMAIN appKey' = End /\ appKey'["server"] = appKey["server"]
      /\ appKey'["client"] = AppKey(Secret("client"), transcript'["client"])
  BY <1>2, Zenon DEF IInv, Domains, Set, End
<1>4. /\ Domains' /\ Logs' /\ Still("server") /\ NoNews("server")
      /\ Enters("client", m) /\ Bodies("client")' = Bodies("client") \cup {m}
      /\ pc'["client"] = "done"
  BY <1>2, <1>3, ClientSends, Zenon
<1>5. transcript'["client"] = Append(transcript["client"], m)
  BY <1>2, SendFacts, Zenon DEF IInv, End
<1>6. /\ Len(transcript["client"]) >= 6 /\ Len(transcript["client"]) >= 4
      /\ Len(transcript'["client"]) >= 6
  <2>1. Len(transcript["client"]) >= 6
    BY <1>2, Zenon DEF IInv, ClientCount
  <2>2. Enters("client", m)
    BY <1>4, Zenon
  <2> QED
    BY <2>1, <2>2 DEF Enters
<1>7. ClientCount'
  BY <1>4, <1>6, ClientCountLate, Zenon
<1>8. ClientChecked'
  BY <1>2, <1>4, <1>6, ClientCheckedStays, Zenon DEF IInv
<1>9. ClientAgreed'
  BY <1>2, <1>4, <1>6, ClientAgreedStays, Zenon DEF IInv
<1>10. ClientFinished'
  <2>1. Secret("client")' = Secret("client")
    BY <1>2, SameSecret, Zenon DEF End
  <2>2. \A n \in Bodies("client") : n.type # "Finished"
    BY <1>2, Zenon DEF IInv, ClientFinished
  <2>3. appKey'["client"] = AppKey(Secret("client")', Append(m.val.over, m))
    BY <1>1, <1>3, <1>5, <2>1, Zenon
  <2> QED
    BY <1>1, <1>4, <2>1, <2>2, <2>3, Zenon DEF ClientFinished
<1>11. ClientCertificate'
  BY <1>1, <1>2, <1>4, Zenon DEF IInv, ClientCertificate
<1>12. pc["client"] # "done"
  BY <1>2, Zenon
<1> QED
  BY <1>2, <1>4, <1>7, <1>8, <1>9, <1>10, <1>11, <1>12, ClientMoves, Zenon

-----------------------------------------------------------------------------
(* The server's steps *)

\* A step of the server alone.
LEMMA ServerMoves ==
  ASSUME IInv, cfg' = cfg, Still("client"), NoNews("client"), Domains', Logs',
         ServerCount', ServerFinished', ServerAnnounced', ServerMutual', ClientAgreed',
         ServerDoneMeansAgreement'
  PROVE  IInv'
<1>1. ClientCount' /\ ClientChecked' /\ ClientFinished' /\ ClientCertificate'
  BY ClientStill, Zenon
<1> QED
  BY <1>1, Zenon DEF IInv

\* What every message the server sends has in common.
LEMMA ServerSends ==
  ASSUME IInv, NEW k, NEW m, NEW l, Send("server", k, m), Goto("server", l),
         UNCHANGED <<peerShare, mutual, appKey>>
  PROVE  /\ Domains' /\ Logs' /\ Still("client") /\ NoNews("client")
         /\ Enters("server", m) /\ Bodies("server")' = Bodies("server") \cup {m}
         /\ pc'["server"] = l
<1>1. "client" \in End /\ "server" \in End /\ Peer("server") = "client"
  BY Zenon DEF End, Peer
<1>2. Domains /\ Logs
  BY Zenon DEF IInv
<1>3. DOMAIN pc' = End /\ pc'["server"] = l /\ pc'["client"] = pc["client"]
  BY <1>1, <1>2, GotoFacts, Zenon
<1>4. /\ Logs' /\ Enters("server", m) /\ transcript'["client"] = transcript["client"]
      /\ Bodies("server")' = Bodies("server") \cup {m} /\ Bodies("client")' = Bodies("client")
  BY <1>1, <1>2, SendFacts, Zenon
<1>5. Domains'
  BY <1>2, <1>3, Zenon DEF Domains
<1> QED
  BY <1>3, <1>4, <1>5, Zenon DEF Still, NoNews

\* What every message the server reads has in common.
LEMMA ServerReads ==
  ASSUME IInv, NEW t, NEW l, Read("server", t), Goto("server", l),
         DOMAIN appKey' = End, appKey'["client"] = appKey["client"],
         DOMAIN peerShare' = End, peerShare'["client"] = peerShare["client"],
         DOMAIN mutual' = End, mutual'["client"] = mutual["client"]
  PROVE  LET m == Head(chan["client"]).body
         IN  /\ Domains' /\ Logs' /\ Still("client") /\ NoNews("client")
             /\ Enters("server", m) /\ m \in Bodies("client") /\ m.type = t
             /\ Bodies("server")' = Bodies("server")
             /\ pc["server"] = t /\ pc'["server"] = l
             /\ Acceptable("server", Head(chan["client"]))
<1>1. "client" \in End /\ "server" \in End /\ Peer("server") = "client"
  BY Zenon DEF End, Peer
<1>2. Domains /\ Logs
  BY Zenon DEF IInv
<1>3. DOMAIN pc' = End /\ pc'["server"] = l /\ pc'["client"] = pc["client"]
  BY <1>1, <1>2, GotoFacts, Zenon
<1>4. /\ Logs' /\ Enters("server", Head(chan["client"]).body)
      /\ Head(chan["client"]).body \in Bodies("client")
      /\ transcript'["client"] = transcript["client"]
      /\ Bodies("client")' \subseteq Bodies("client") /\ Bodies("server")' = Bodies("server")
  BY <1>1, <1>2, ReadFacts, Zenon
<1>5. /\ pc["server"] = t
      /\ Acceptable("server", Head(chan["client"])) /\ Head(chan["client"]).body.type = t
  BY <1>1, Zenon DEF Read, Waiting, Reading, Acceptable
<1>6. Domains'
  BY <1>2, <1>3, Zenon DEF Domains
<1> QED
  BY <1>3, <1>4, <1>5, <1>6, Zenon DEF Still, NoNews

\* The server's transcript grows at its end, so what was agreed stays agreed, and
\* before it has read a hello there is nothing to agree on.
LEMMA AgreedStays ==
  ASSUME ClientAgreed, NEW m, Enters("server", m), Still("client"),
         peerShare'["server"] = peerShare["server"] \/ Len(transcript["server"]) = 0
  PROVE  ClientAgreed'
<1>1. Secret("client")' = Secret("client")
  BY SameSecret, Zenon DEF Still, End
<1>2. CASE peerShare'["server"] = peerShare["server"]
  <2>1. Secret("server")' = Secret("server")
    BY <1>2, SameSecret, Zenon DEF End
  <2> QED
    BY <1>1, <2>1, SMTT(30) DEF ClientAgreed, Enters, Still
<1>3. CASE Len(transcript["server"]) = 0
  BY <1>3 DEF ClientAgreed, Still
<1> QED
  BY <1>2, <1>3, Zenon

LEMMA ServerFinishedStays ==
  ASSUME ServerFinished, NEW m, Enters("server", m),
         \A n \in Bodies("server")' : n \in Bodies("server") \/ n.type # "Finished",
         peerShare'["server"] = peerShare["server"] \/ Len(transcript["server"]) = 0
  PROVE  ServerFinished'
<1>1. CASE peerShare'["server"] = peerShare["server"]
  <2>1. Secret("server")' = Secret("server")
    BY <1>1, SameSecret, Zenon DEF End
  <2> QED
    BY <2>1, SMTT(30) DEF ServerFinished, Enters
<1>2. CASE Len(transcript["server"]) = 0
  BY <1>2 DEF ServerFinished
<1> QED
  BY <1>1, <1>2, Zenon

LEMMA ServerAnnouncedStays ==
  ASSUME ServerAnnounced, NEW m, Enters("server", m), mutual'["server"] = mutual["server"],
         Len(transcript["server"]) # 2
  PROVE  ServerAnnounced'
<1>1. CASE Len(transcript["server"]) >= 3
  <2>1. transcript'["server"][3] = transcript["server"][3]
    BY <1>1 DEF Enters
  <2> QED
    BY <1>1, <2>1, Zenon DEF ServerAnnounced
<1>2. CASE ~(Len(transcript["server"]) >= 3)
  <2>1. ~(Len(transcript'["server"]) >= 3)
    <3> DEFINE n == Len(transcript["server"])
               k == Len(transcript'["server"])
    <3>1. n \in Nat /\ k = n + 1 /\ n # 2 /\ ~(n >= 3)
      BY <1>2, Zenon DEF Enters
    <3> HIDE DEF n, k
    <3>2. ~(k >= 3)
      BY <3>1
    <3> QED
      BY <3>2, Zenon DEF k
  <2> QED
    BY <2>1, Zenon DEF ServerAnnounced
<1> QED
  BY <1>1, <1>2, Zenon

LEMMA ServerMutualEarly ==
  ASSUME ServerMutual, cfg' = cfg, mutual'["server"] = mutual["server"],
         Len(transcript["server"]) >= 1,
         pc'["server"] \notin {"CertificateVerify", "Finished", "done"}
  PROVE  ServerMutual'
BY Zenon DEF ServerMutual

LEMMA ServerSendServerHelloIInv ==
  ASSUME IInv, ServerSendServerHello
  PROVE  IInv'
<1> DEFINE m == Msg("ServerHello", "server")
           k == Plain
<1>1. m.type = "ServerHello"
  BY Zenon DEF Msg
<1>2. /\ pc["server"] = "send ServerHello" /\ Send("server", k, m)
      /\ Goto("server", "send EncryptedExtensions")
      /\ UNCHANGED <<cfg, peerShare, mutual, appKey>>
  BY Zenon DEF ServerSendServerHello
<1> HIDE DEF m, k
<1>3. /\ Domains' /\ Logs' /\ Still("client") /\ NoNews("client")
      /\ Enters("server", m) /\ Bodies("server")' = Bodies("server") \cup {m}
      /\ pc'["server"] = "send EncryptedExtensions"
  BY <1>2, ServerSends, Zenon
<1>4. Len(transcript["server"]) = 1
  BY <1>2, Zenon DEF IInv, ServerCount
<1>5. /\ Len(transcript'["server"]) = 2 /\ Len(transcript["server"]) >= 1
      /\ Len(transcript["server"]) # 2
  <2>1. Enters("server", m)
    BY <1>3, Zenon
  <2> QED
    BY <1>4, <2>1 DEF Enters
<1>6. ServerCount'
  BY <1>3, <1>5, Zenon DEF ServerCount
<1>7. ServerFinished'
  BY <1>1, <1>2, <1>3, ServerFinishedStays, Zenon DEF IInv
<1>8. ServerAnnounced'
  BY <1>2, <1>3, <1>5, ServerAnnouncedStays, Zenon DEF IInv
<1>9. ServerMutual'
  BY <1>2, <1>3, <1>5, ServerMutualEarly, Zenon DEF IInv
<1>10. ClientAgreed'
  BY <1>2, <1>3, AgreedStays, Zenon DEF IInv
<1>11. ServerDoneMeansAgreement'
  BY <1>3, Zenon DEF ServerDoneMeansAgreement
<1> QED
  BY <1>2, <1>3, <1>6, <1>7, <1>8, <1>9, <1>10, <1>11, ServerMoves, Zenon

LEMMA ServerSendEncryptedExtensionsIInv ==
  ASSUME IInv, ServerSendEncryptedExtensions
  PROVE  IInv'
<1> DEFINE m == Msg("EncryptedExtensions", mutual["server"])
           k == Secret("server")
<1>1. m.type = "EncryptedExtensions" /\ m.val = mutual["server"]
  BY Zenon DEF Msg
<1>2. /\ pc["server"] = "send EncryptedExtensions" /\ Send("server", k, m)
      /\ Goto("server", "send Certificate")
      /\ UNCHANGED <<cfg, peerShare, mutual, appKey>>
  BY Zenon DEF ServerSendEncryptedExtensions
<1> HIDE DEF m, k
<1>3. /\ Domains' /\ Logs' /\ Still("client") /\ NoNews("client")
      /\ Enters("server", m) /\ Bodies("server")' = Bodies("server") \cup {m}
      /\ pc'["server"] = "send Certificate"
  BY <1>2, ServerSends, Zenon
<1>4. Len(transcript["server"]) = 2
  BY <1>2, Zenon DEF IInv, ServerCount
<1>5. /\ Len(transcript'["server"]) = 3 /\ Len(transcript["server"]) >= 1
      /\ transcript'["server"][3] = m
  <2>1. Enters("server", m)
    BY <1>3, Zenon
  <2> QED
    BY <1>4, <2>1 DEF Enters
<1>6. ServerCount'
  BY <1>3, <1>5, Zenon DEF ServerCount
<1>7. ServerFinished'
  BY <1>1, <1>2, <1>3, ServerFinishedStays, Zenon DEF IInv
<1>8. ServerAnnounced'
  <2>1. mutual'["server"] = mutual["server"]
    BY <1>2, Zenon
  <2> QED
    BY <1>1, <1>5, <2>1, Zenon DEF ServerAnnounced
<1>9. ServerMutual'
  BY <1>2, <1>3, <1>5, ServerMutualEarly, Zenon DEF IInv
<1>10. ClientAgreed'
  BY <1>2, <1>3, AgreedStays, Zenon DEF IInv
<1>11. ServerDoneMeansAgreement'
  BY <1>3, Zenon DEF ServerDoneMeansAgreement
<1> QED
  BY <1>2, <1>3, <1>6, <1>7, <1>8, <1>9, <1>10, <1>11, ServerMoves, Zenon

LEMMA ServerSendCertificateIInv ==
  ASSUME IInv, ServerSendCertificate
  PROVE  IInv'
<1> DEFINE m == Msg("Certificate", "server")
           k == Secret("server")
<1>1. m.type = "Certificate"
  BY Zenon DEF Msg
<1>2. /\ pc["server"] = "send Certificate" /\ Send("server", k, m)
      /\ Goto("server", "send CertificateVerify")
      /\ UNCHANGED <<cfg, peerShare, mutual, appKey>>
  BY Zenon DEF ServerSendCertificate
<1> HIDE DEF m, k
<1>3. /\ Domains' /\ Logs' /\ Still("client") /\ NoNews("client")
      /\ Enters("server", m) /\ Bodies("server")' = Bodies("server") \cup {m}
      /\ pc'["server"] = "send CertificateVerify"
  BY <1>2, ServerSends, Zenon
<1>4. Len(transcript["server"]) = 3
  BY <1>2, Zenon DEF IInv, ServerCount
<1>5. /\ Len(transcript'["server"]) = 4 /\ Len(transcript["server"]) >= 1
      /\ Len(transcript["server"]) # 2
  <2>1. Enters("server", m)
    BY <1>3, Zenon
  <2> QED
    BY <1>4, <2>1 DEF Enters
<1>6. ServerCount'
  BY <1>3, <1>5, Zenon DEF ServerCount
<1>7. ServerFinished'
  BY <1>1, <1>2, <1>3, ServerFinishedStays, Zenon DEF IInv
<1>8. ServerAnnounced'
  BY <1>2, <1>3, <1>5, ServerAnnouncedStays, Zenon DEF IInv
<1>9. ServerMutual'
  BY <1>2, <1>3, <1>5, ServerMutualEarly, Zenon DEF IInv
<1>10. ClientAgreed'
  BY <1>2, <1>3, AgreedStays, Zenon DEF IInv
<1>11. ServerDoneMeansAgreement'
  BY <1>3, Zenon DEF ServerDoneMeansAgreement
<1> QED
  BY <1>2, <1>3, <1>6, <1>7, <1>8, <1>9, <1>10, <1>11, ServerMoves, Zenon

LEMMA ServerSendCertificateVerifyIInv ==
  ASSUME IInv, ServerSendCertificateVerify
  PROVE  IInv'
<1> DEFINE m == Msg("CertificateVerify", Signature("server", transcript["server"]))
           k == Secret("server")
<1>1. m.type = "CertificateVerify"
  BY Zenon DEF Msg
<1>2. /\ pc["server"] = "send CertificateVerify" /\ Send("server", k, m)
      /\ Goto("server", "send Finished")
      /\ UNCHANGED <<cfg, peerShare, mutual, appKey>>
  BY Zenon DEF ServerSendCertificateVerify
<1> HIDE DEF m, k
<1>3. /\ Domains' /\ Logs' /\ Still("client") /\ NoNews("client")
      /\ Enters("server", m) /\ Bodies("server")' = Bodies("server") \cup {m}
      /\ pc'["server"] = "send Finished"
  BY <1>2, ServerSends, Zenon
<1>4. Len(transcript["server"]) = 4
  BY <1>2, Zenon DEF IInv, ServerCount
<1>5. /\ Len(transcript'["server"]) = 5 /\ Len(transcript["server"]) >= 1
      /\ Len(transcript["server"]) # 2
  <2>1. Enters("server", m)
    BY <1>3, Zenon
  <2> QED
    BY <1>4, <2>1 DEF Enters
<1>6. ServerCount'
  BY <1>3, <1>5, Zenon DEF ServerCount
<1>7. ServerFinished'
  BY <1>1, <1>2, <1>3, ServerFinishedStays, Zenon DEF IInv
<1>8. ServerAnnounced'
  BY <1>2, <1>3, <1>5, ServerAnnouncedStays, Zenon DEF IInv
<1>9. ServerMutual'
  BY <1>2, <1>3, <1>5, ServerMutualEarly, Zenon DEF IInv
<1>10. ClientAgreed'
  BY <1>2, <1>3, AgreedStays, Zenon DEF IInv
<1>11. ServerDoneMeansAgreement'
  BY <1>3, Zenon DEF ServerDoneMeansAgreement
<1> QED
  BY <1>2, <1>3, <1>6, <1>7, <1>8, <1>9, <1>10, <1>11, ServerMoves, Zenon

LEMMA ServerPrepareIInv ==
  ASSUME IInv, ServerPrepare
  PROVE  IInv'
<1>1. /\ pc["server"] = "start" /\ Goto("server", "ClientHello")
      /\ UNCHANGED <<cfg, chan, transcript, peerShare, mutual, appKey>>
  BY Zenon DEF ServerPrepare
<1>2. Domains /\ Logs
  BY Zenon DEF IInv
<1>3. /\ DOMAIN pc' = End /\ pc'["server"] = "ClientHello" /\ pc'["client"] = pc["client"]
  BY <1>1, <1>2, GotoFacts, Zenon DEF End
<1>4. Domains' /\ Logs'
  BY <1>1, <1>2, <1>3, Zenon DEF Domains, Logs
<1>5. \A e \in End : Bodies(e)' = Bodies(e)
  BY <1>1, Zenon DEF Bodies
<1>6. Still("client") /\ NoNews("client")
  BY <1>1, <1>3, <1>5, Zenon DEF Still, NoNews, End
<1>7. \A e \in End : Secret(e)' = Secret(e)
  BY <1>1, SameSecret, Zenon
<1>8. ServerCount'
  BY <1>1, <1>3, Zenon DEF IInv, ServerCount
<1>9. ServerFinished'
  BY <1>1, <1>5, <1>7, Zenon DEF IInv, ServerFinished, End
<1>10. ServerAnnounced'
  BY <1>1, Zenon DEF IInv, ServerAnnounced
<1>11. ServerMutual'
  <2>1. pc'["server"] \notin {"CertificateVerify", "Finished", "done"}
    BY <1>3, Zenon
  <2> QED
    BY <1>1, <2>1, Zenon DEF IInv, ServerMutual
<1>12. ClientAgreed'
  BY <1>1, <1>7, Zenon DEF IInv, ClientAgreed, End
<1>13. ServerDoneMeansAgreement'
  BY <1>3, Zenon DEF ServerDoneMeansAgreement
<1> QED
  BY <1>1, <1>4, <1>6, <1>8, <1>9, <1>10, <1>11, <1>12, <1>13, ServerMoves, Zenon

LEMMA ServerReadClientHelloIInv ==
  ASSUME IInv, ServerReadClientHello
  PROVE  IInv'
<1> DEFINE m == Head(chan["client"]).body
<1>1. /\ Read("server", "ClientHello") /\ Goto("server", "send ServerHello")
      /\ UNCHANGED <<cfg, appKey>> /\ DOMAIN appKey' = End
      /\ DOMAIN peerShare' = End /\ peerShare'["client"] = peerShare["client"]
  BY Zenon DEF ServerReadClientHello, Set, IInv, Domains, End
<1>2. /\ DOMAIN mutual' = End /\ mutual'["client"] = mutual["client"]
      /\ mutual'["server"] = (cfg["server"].mutual \/ Val("server").flag)
  BY Zenon DEF ServerReadClientHello, Set, IInv, Domains, End
<1>3. cfg["server"].mutual => mutual'["server"]
  BY <1>2, Zenon
<1>4. /\ Domains' /\ Logs' /\ Still("client") /\ NoNews("client")
      /\ Enters("server", m) /\ Bodies("server")' = Bodies("server")
      /\ pc["server"] = "ClientHello" /\ pc'["server"] = "send ServerHello"
  BY <1>1, <1>2, ServerReads, Zenon
<1> HIDE DEF m
<1>5. Len(transcript["server"]) = 0
  BY <1>4, Zenon DEF IInv, ServerCount
<1>6. Len(transcript'["server"]) = 1
  <2>1. Enters("server", m)
    BY <1>4, Zenon
  <2> QED
    BY <1>5, <2>1 DEF Enters
<1>7. ServerCount'
  BY <1>4, <1>6, Zenon DEF ServerCount
<1>8. ServerFinished'
  BY <1>4, <1>5, ServerFinishedStays, Zenon DEF IInv
<1>9. ~(Len(transcript'["server"]) >= 3)
  BY <1>6
<1>10. ServerAnnounced'
  BY <1>9, Zenon DEF ServerAnnounced
<1>11. pc'["server"] \notin {"CertificateVerify", "Finished", "done"}
  BY <1>4, Zenon
<1>12. ServerMutual'
  BY <1>1, <1>3, <1>11, Zenon DEF ServerMutual
<1>13. ClientAgreed'
  BY <1>4, <1>5, AgreedStays, Zenon DEF IInv
<1>14. ServerDoneMeansAgreement'
  BY <1>4, Zenon DEF ServerDoneMeansAgreement
<1> QED
  BY <1>1, <1>4, <1>7, <1>8, <1>10, <1>12, <1>13, <1>14, ServerMoves, Zenon

\* The tag is over the five messages before it: this is what the client's agreement
\* rests on.
LEMMA ServerSendFinishedIInv ==
  ASSUME IInv, ServerSendFinished
  PROVE  IInv'
<1> DEFINE tag == FinishedTag("server", Secret("server"), transcript["server"])
           m == Msg("Finished", tag)
           l == IF mutual["server"] THEN "Certificate" ELSE "Finished"
<1>1. /\ m.type = "Finished" /\ m.val.over = transcript["server"]
      /\ m.val.key = <<Secret("server"), "server">>
  BY Zenon DEF Msg, FinishedTag
<1>2. /\ pc["server"] = "send Finished" /\ Send("server", Secret("server"), m)
      /\ Goto("server", l) /\ UNCHANGED <<cfg, peerShare, mutual, appKey>>
  BY Zenon DEF ServerSendFinished
<1>3. l \in {"Certificate", "Finished"} /\ l # "done"
  BY Zenon
<1>4. l # "Certificate" => ~mutual["server"]
  BY Zenon
<1> HIDE DEF m, l
<1>5. /\ Domains' /\ Logs' /\ Still("client") /\ NoNews("client")
      /\ Enters("server", m) /\ Bodies("server")' = Bodies("server") \cup {m}
      /\ pc'["server"] = l
  BY <1>2, ServerSends, Zenon
<1>6. Len(transcript["server"]) = 5
  BY <1>2, Zenon DEF IInv, ServerCount
<1>7. /\ Len(transcript'["server"]) = 6 /\ Len(transcript'["server"]) >= 6
      /\ Len(transcript["server"]) >= 1 /\ Len(transcript["server"]) # 2
      /\ transcript'["server"][6] = m
      /\ \A i \in 1 .. 5 : transcript'["server"][i] = transcript["server"][i]
  <2>1. Enters("server", m)
    BY <1>5, Zenon
  <2> QED
    BY <1>6, <2>1 DEF Enters
<1>8. ServerCount'
  BY <1>3, <1>5, <1>7, Zenon DEF ServerCount
<1>9. ServerFinished'
  <2>1. Secret("server")' = Secret("server")
    BY <1>2, SameSecret, Zenon DEF End
  <2>2. \A n \in Bodies("server") : n.type # "Finished"
    BY <1>6 DEF IInv, ServerFinished
  <2> QED
    BY <1>1, <1>5, <1>6, <1>7, <2>1, <2>2, Zenon DEF ServerFinished
<1>10. ServerAnnounced'
  BY <1>2, <1>5, <1>7, ServerAnnouncedStays, Zenon DEF IInv
<1>11. ServerMutual'
  <2>1. CASE l = "Certificate"
    BY <1>2, <1>5, <1>7, <2>1, ServerMutualEarly, Zenon DEF IInv
  <2>2. CASE l # "Certificate"
    BY <1>2, <1>4, <1>7, <2>2, Zenon DEF IInv, ServerMutual
  <2> QED
    BY <2>1, <2>2, Zenon
<1>12. ClientAgreed'
  BY <1>2, <1>5, AgreedStays, Zenon DEF IInv
<1>13. ServerDoneMeansAgreement'
  BY <1>3, <1>5, Zenon DEF ServerDoneMeansAgreement
<1> QED
  BY <1>2, <1>5, <1>8, <1>9, <1>10, <1>11, <1>12, <1>13, ServerMoves, Zenon

\* Past its Finished the server's transcript only grows.
LEMMA ServerReadsLate ==
  ASSUME IInv, NEW m, Enters("server", m), Bodies("server")' = Bodies("server"),
         Still("client"), UNCHANGED <<peerShare, mutual>>,
         pc["server"] \in {"Certificate", "CertificateVerify", "Finished"},
         pc'["server"] \in {"CertificateVerify", "Finished", "done"}
  PROVE  /\ ServerCount' /\ ServerFinished' /\ ServerAnnounced' /\ ClientAgreed'
         /\ Len(transcript["server"]) >= 1
<1>1. Len(transcript["server"]) >= 6
  BY Zenon DEF IInv, ServerCount
<1>2. /\ Len(transcript'["server"]) >= 6 /\ Len(transcript["server"]) # 2
      /\ Len(transcript["server"]) >= 1
  BY <1>1 DEF Enters
<1>3. ServerCount'
  BY <1>2, Zenon DEF ServerCount
<1>4. ServerFinished'
  BY ServerFinishedStays, Zenon DEF IInv
<1>5. ServerAnnounced'
  BY <1>2, ServerAnnouncedStays, Zenon DEF IInv
<1>6. ClientAgreed'
  BY AgreedStays, Zenon DEF IInv
<1> QED
  BY <1>2, <1>3, <1>4, <1>5, <1>6, Zenon

LEMMA ServerReadCertificateIInv ==
  ASSUME IInv, ServerReadCertificate
  PROVE  IInv'
<1> DEFINE m == Head(chan["client"]).body
<1>1. /\ Read("server", "Certificate") /\ Goto("server", "CertificateVerify")
      /\ UNCHANGED <<cfg, peerShare, mutual, appKey>>
      /\ DOMAIN appKey' = End /\ DOMAIN peerShare' = End /\ DOMAIN mutual' = End
  BY Zenon DEF ServerReadCertificate, IInv, Domains
<1>2. /\ Domains' /\ Logs' /\ Still("client") /\ NoNews("client")
      /\ Enters("server", m) /\ Bodies("server")' = Bodies("server")
      /\ m \in Bodies("client") /\ m.type = "Certificate"
      /\ pc["server"] = "Certificate" /\ pc'["server"] = "CertificateVerify"
      /\ Acceptable("server", Head(chan["client"]))
  BY <1>1, ServerReads, Zenon
<1>3. cfg["server"].accepts
  <2>1. CertificateOK("server")
    BY <1>2, Zenon DEF Acceptable
  <2> QED
    BY <2>1, Zenon DEF CertificateOK
<1> HIDE DEF m
<1>4. cfg["client"].prepares
  BY <1>2, Zenon DEF IInv, ClientCertificate
<1>5. /\ ServerCount' /\ ServerFinished' /\ ServerAnnounced' /\ ClientAgreed'
      /\ Len(transcript["server"]) >= 1
  BY <1>1, <1>2, ServerReadsLate, Zenon
<1>6. ServerMutual'
  BY <1>1, <1>3, <1>4, <1>5, Zenon DEF IInv, ServerMutual
<1>7. ServerDoneMeansAgreement'
  BY <1>2, Zenon DEF ServerDoneMeansAgreement
<1> QED
  BY <1>1, <1>2, <1>5, <1>6, <1>7, ServerMoves, Zenon

LEMMA ServerReadCertificateVerifyIInv ==
  ASSUME IInv, ServerReadCertificateVerify
  PROVE  IInv'
<1> DEFINE m == Head(chan["client"]).body
<1>1. /\ Read("server", "CertificateVerify") /\ Goto("server", "Finished")
      /\ UNCHANGED <<cfg, peerShare, mutual, appKey>>
      /\ DOMAIN appKey' = End /\ DOMAIN peerShare' = End /\ DOMAIN mutual' = End
  BY Zenon DEF ServerReadCertificateVerify, IInv, Domains
<1>2. /\ Domains' /\ Logs' /\ Still("client") /\ NoNews("client")
      /\ Enters("server", m) /\ Bodies("server")' = Bodies("server")
      /\ pc["server"] = "CertificateVerify" /\ pc'["server"] = "Finished"
  BY <1>1, ServerReads, Zenon
<1> HIDE DEF m
<1>3. /\ ServerCount' /\ ServerFinished' /\ ServerAnnounced' /\ ClientAgreed'
      /\ Len(transcript["server"]) >= 1
  BY <1>1, <1>2, ServerReadsLate, Zenon
<1>4. pc["server"] \in {"CertificateVerify", "Finished", "done"}
  BY <1>2, Zenon
<1>5. ServerMutual'
  BY <1>1, <1>3, <1>4, Zenon DEF IInv, ServerMutual
<1>6. ServerDoneMeansAgreement'
  BY <1>2, Zenon DEF ServerDoneMeansAgreement
<1> QED
  BY <1>1, <1>2, <1>3, <1>5, <1>6, ServerMoves, Zenon

\* The client's tag is over the server's own transcript: the client is done, and its
\* keys are those of the same secret and the same messages.
LEMMA ServerReadFinishedIInv ==
  ASSUME IInv, ServerReadFinished
  PROVE  IInv'
<1> DEFINE m == Head(chan["client"]).body
<1>1. /\ Read("server", "Finished") /\ Goto("server", "done")
      /\ UNCHANGED <<cfg, peerShare, mutual>>
      /\ DOMAIN peerShare' = End /\ DOMAIN mutual' = End
  BY Zenon DEF ServerReadFinished, IInv, Domains
<1>2. /\ DOMAIN appKey' = End /\ appKey'["client"] = appKey["client"]
      /\ appKey'["server"] = AppKey(Secret("server"), transcript'["server"])
  BY Zenon DEF ServerReadFinished, IInv, Domains, Set, End
<1>3. /\ Domains' /\ Logs' /\ Still("client") /\ NoNews("client")
      /\ Enters("server", m) /\ Bodies("server")' = Bodies("server")
      /\ m \in Bodies("client") /\ m.type = "Finished"
      /\ pc["server"] = "Finished" /\ pc'["server"] = "done"
      /\ Acceptable("server", Head(chan["client"]))
  BY <1>1, <1>2, ServerReads, Zenon
<1>4. transcript'["server"] = Append(transcript["server"], m)
  BY <1>1, Zenon DEF Read, Set, IInv, Logs, Peer, End
<1>5. FinishedOK("server", m)
  BY <1>3, Zenon DEF Acceptable
<1>6. m.val.key = <<Secret("server"), "client">> /\ m.val.over = transcript["server"]
  BY <1>5 DEF FinishedOK, FinishedTag, Peer
<1> HIDE DEF m
<1>7. /\ ServerCount' /\ ServerFinished' /\ ServerAnnounced' /\ ClientAgreed'
      /\ Len(transcript["server"]) >= 1
  BY <1>1, <1>3, ServerReadsLate, Zenon
<1>8. pc["server"] \in {"CertificateVerify", "Finished", "done"}
  BY <1>3, Zenon
<1>9. ServerMutual'
  BY <1>1, <1>7, <1>8, Zenon DEF IInv, ServerMutual
<1>10. ServerDoneMeansAgreement'
  <2>1. /\ pc["client"] = "done" /\ m.val.key = <<Secret("client"), "client">>
        /\ appKey["client"] = AppKey(Secret("client"), Append(m.val.over, m))
    BY <1>3, Zenon DEF IInv, ClientFinished
  <2>2. Secret("client") = Secret("server")
    BY <1>6, <2>1
  <2>3. appKey'["client"] = appKey'["server"]
    BY <1>2, <1>4, <1>6, <2>1, <2>2, Zenon
  <2>4. pc'["client"] = "done"
    BY <1>3, <2>1, Zenon DEF Still
  <2> QED
    BY <2>3, <2>4, Zenon DEF ServerDoneMeansAgreement
<1> QED
  BY <1>1, <1>3, <1>7, <1>9, <1>10, ServerMoves, Zenon

-----------------------------------------------------------------------------
(* Failures, the network, and steps of neither end *)

\* A step that moves neither end.
LEMMA BothStill ==
  ASSUME IInv, cfg' = cfg, Domains', Logs',
         \A e \in End : Still(e) /\ NoNews(e)
  PROVE  IInv'
<1>1. Still("client") /\ NoNews("client") /\ Still("server") /\ NoNews("server")
  BY Zenon DEF End
<1>2. \A e \in End : Secret(e)' = Secret(e)
  BY SameSecret, Zenon DEF Still
<1>3. ClientAgreed'
  BY <1>1, <1>2, Zenon DEF IInv, ClientAgreed, Still, End
<1>4. ServerDoneMeansAgreement'
  BY <1>1, Zenon DEF IInv, ServerDoneMeansAgreement, Still
<1> QED
  BY <1>1, <1>3, <1>4, ServerStill, ServerMoves, Zenon

\* An end gives up before it is done; what it read and wrote stays as it is.
LEMMA FailIInv ==
  ASSUME IInv, NEW e \in End, NEW l \in {"failed", "timed out"}, Fail(e, l),
         pc[e] # "done", Logs',
         \A d \in End : NoNews(d)
  PROVE  IInv'
<1>1. UNCHANGED <<cfg, transcript, peerShare, mutual, appKey>> /\ Goto(e, l)
  BY Zenon DEF Fail
<1>2. /\ DOMAIN pc' = End /\ pc'[e] = l
      /\ \A d \in End : d # e => pc'[d] = pc[d]
  BY <1>1, GotoFacts, Zenon DEF IInv
<1>3. Domains'
  BY <1>1, <1>2, Zenon DEF IInv, Domains
<1>4. \A d \in End : Secret(d)' = Secret(d)
  BY <1>1, SameSecret, Zenon
<1>5. NoNews("client") /\ NoNews("server")
  BY Zenon DEF End
<1>6. ClientAgreed'
  BY <1>1, <1>4, Zenon DEF IInv, ClientAgreed, End
<1>7. CASE e = "client"
  <2>1. Still("server") /\ pc'["client"] = l /\ pc["client"] # "done"
    BY <1>1, <1>2, <1>7, Zenon DEF Still, End
  <2>2. ClientCount'
    BY <2>1, Zenon DEF ClientCount
  <2>3. ClientChecked'
    BY <1>1, Zenon DEF IInv, ClientChecked
  <2>4. ClientFinished'
    BY <1>5, <2>1, Zenon DEF IInv, ClientFinished, NoNews, Hello
  <2>5. ClientCertificate'
    <3> SUFFICES ASSUME NEW m \in Bodies("client")', m.type = "Certificate"
                 PROVE  cfg'["client"].prepares
      BY Zenon DEF ClientCertificate
    <3>1. m \in Bodies("client")
      BY <1>5, Zenon DEF NoNews, Hello
    <3> QED
      BY <1>1, <3>1, Zenon DEF IInv, ClientCertificate
  <2> QED
    BY <1>1, <1>3, <1>5, <1>6, <2>1, <2>2, <2>3, <2>4, <2>5, ClientMoves, Zenon
<1>8. CASE e = "server"
  <2>1. Still("client") /\ pc'["server"] = l /\ pc["server"] # "done"
    BY <1>1, <1>2, <1>8, Zenon DEF Still, End
  <2>2. ServerCount'
    BY <2>1, Zenon DEF ServerCount
  <2>3. ServerFinished'
    BY <1>1, <1>4, <1>5, Zenon DEF IInv, ServerFinished, NoNews, Hello, End
  <2>4. ServerAnnounced'
    BY <1>1, Zenon DEF IInv, ServerAnnounced
  <2>5. pc'["server"] \notin {"CertificateVerify", "Finished", "done"}
    BY <2>1, Zenon
  <2>6. ServerMutual'
    BY <1>1, <2>5, Zenon DEF IInv, ServerMutual
  <2>7. ServerDoneMeansAgreement'
    BY <2>1, Zenon DEF ServerDoneMeansAgreement
  <2> QED
    BY <1>1, <1>3, <1>5, <1>6, <2>1, <2>2, <2>3, <2>4, <2>6, <2>7, ServerMoves, Zenon
<1> QED
  BY <1>7, <1>8, Zenon DEF End

\* With the messages in flight as they were, there is no news.
LEMMA SameChan ==
  ASSUME IInv, UNCHANGED <<chan, transcript>>
  PROVE  Logs' /\ DOMAIN chan' = End /\ \A d \in End : NoNews(d)
BY Zenon DEF IInv, Logs, NoNews, Bodies

LEMMA FailStepIInv ==
  ASSUME IInv, NEW e \in End, FailStep(e) \/ TimeOut(e)
  PROVE  IInv'
<1>1. CASE PrepareFails(e)
  <2>1. Fail(e, "failed") /\ UNCHANGED <<chan, transcript>>
    BY <1>1, Zenon DEF PrepareFails, Fail
  <2>2. pc[e] # "done"
    BY <1>1, Zenon DEF PrepareFails
  <2> QED
    BY <2>1, <2>2, SameChan, FailIInv, Zenon
<1>2. CASE Reject(e)
  <2>1. /\ Fail(e, "failed") /\ pc[e] # "done" /\ chan[Peer(e)] # << >>
        /\ chan' = Set(chan, Peer(e), Tail(chan[Peer(e)]))
    BY <1>2, Zenon DEF Reject, Waiting, Reading
  <2>2. /\ Bodies(Peer(e))' \subseteq Bodies(Peer(e)) /\ Bodies(e)' = Bodies(e)
        /\ DOMAIN chan' = End
        /\ \A d \in End : IsLog(chan'[d])
        /\ \A d \in End : \A i \in 1 .. Len(chan'[d]) : IsWire(chan'[d][i])
    BY <2>1, TakeFacts, Zenon DEF IInv
  <2>3. transcript' = transcript
    BY <2>1, Zenon DEF Fail
  <2>4. Logs'
    BY <2>2, <2>3, Zenon DEF IInv, Logs
  <2>5. \A d \in End : d = e \/ d = Peer(e)
    BY DEF Peer, End
  <2>6. \A d \in End : NoNews(d)
    BY <2>2, <2>5, Zenon DEF NoNews
  <2> QED
    BY <2>1, <2>2, <2>4, <2>6, FailIInv, Zenon
<1>3. CASE PeerGone(e)
  <2>1. Fail(e, "failed") /\ UNCHANGED <<chan, transcript>> /\ pc[e] # "done"
    BY <1>3, Zenon DEF PeerGone, Fail, AtIO, Active
  <2> QED
    BY <2>1, SameChan, FailIInv, Zenon
<1>4. CASE TimeOut(e)
  <2>1. Fail(e, "timed out") /\ UNCHANGED <<chan, transcript>> /\ pc[e] # "done"
    BY <1>4, Zenon DEF TimeOut, Fail, AtIO, Active
  <2> QED
    BY <2>1, SameChan, FailIInv, Zenon
<1> QED
  BY <1>1, <1>2, <1>3, <1>4, Zenon DEF FailStep

LEMMA UnmovedIInv ==
  ASSUME IInv, UNCHANGED <<cfg, pc, transcript, peerShare, mutual, appKey>>, Logs',
         \A d \in End : NoNews(d)
  PROVE  IInv'
<1>1. Domains'
  BY Zenon DEF IInv, Domains
<1>2. \A d \in End : Still(d)
  BY Zenon DEF Still
<1> QED
  BY <1>1, <1>2, BothStill, Zenon

-----------------------------------------------------------------------------
(* The theorems *)

LEMMA NextIInv ==
  ASSUME IInv, [Next]_vars
  PROVE  IInv'
<1>1. CASE ClientStep
  BY <1>1, ClientSendClientHelloIInv, ClientReadServerHelloIInv,
     ClientReadEncryptedExtensionsIInv, ClientReadCertificateIInv,
     ClientReadCertificateVerifyIInv, ClientReadFinishedIInv, ClientSendCertificateIInv,
     ClientSendCertificateVerifyIInv, ClientSendFinishedIInv, Zenon DEF ClientStep
<1>2. CASE ServerStep
  BY <1>2, ServerPrepareIInv, ServerReadClientHelloIInv, ServerSendServerHelloIInv,
     ServerSendEncryptedExtensionsIInv, ServerSendCertificateIInv,
     ServerSendCertificateVerifyIInv, ServerSendFinishedIInv, ServerReadCertificateIInv,
     ServerReadCertificateVerifyIInv, ServerReadFinishedIInv, Zenon DEF ServerStep
<1>3. ASSUME NEW e \in End, FailStep(e) \/ TimeOut(e)
      PROVE  IInv'
  BY <1>3, FailStepIInv, Zenon
<1>4. ASSUME NEW e \in End, DialCloses \/ ApplicationCloses(e)
      PROVE  IInv'
  <2>1. UNCHANGED <<cfg, pc, chan, transcript, peerShare, mutual, appKey>>
    BY <1>4, Zenon DEF DialCloses, ApplicationCloses, CloseRaw
  <2> QED
    BY <2>1, SameChan, UnmovedIInv, Zenon
<1>5. ASSUME NEW e \in End, Alter(e)
      PROVE  IInv'
  <2>1. UNCHANGED <<cfg, pc, transcript, peerShare, mutual, appKey>>
    BY <1>5, Zenon DEF Alter
  <2>2. Logs' /\ \A d \in End : NoNews(d)
    BY <1>5, AlterFacts, Zenon DEF IInv, NoNews
  <2> QED
    BY <2>1, <2>2, UnmovedIInv, Zenon
<1>6. CASE UNCHANGED vars
  <2>1. UNCHANGED <<cfg, pc, chan, transcript, peerShare, mutual, appKey>>
    BY <1>6, Zenon DEF vars
  <2> QED
    BY <2>1, SameChan, UnmovedIInv, Zenon
<1>7. End # {}
  BY Zenon DEF End
<1> QED
  BY <1>1, <1>2, <1>3, <1>4, <1>5, <1>6, <1>7, Zenon DEF Next

\* The invariant behind the agreement theorems holds throughout every handshake.
THEOREM InvariantHolds == Spec => []IInv
<1>1. IInv /\ [Next]_vars => IInv'
  BY NextIInv, Zenon
<1> QED
  BY <1>1, InitIInv, PTL DEF Spec

\* Both handshakes' Finished exchange: a server that completes did so with a client
\* that completed, holding the application keys of one secret and one transcript.
THEOREM ServerAgreement == Spec => []ServerDoneMeansAgreement
<1>1. IInv => ServerDoneMeansAgreement
  BY Zenon DEF IInv
<1> QED
  BY <1>1, InvariantHolds, PTL

\* ClientHandshakeContext returns only if both ends saw the same first six messages
\* and computed the same secret, whatever was altered on the way.
THEOREM ClientAgreement == Spec => []ClientDoneMeansAgreement
<1>1. IInv => ClientDoneMeansAgreement
  <2> SUFFICES ASSUME IInv, pc["client"] = "done"
               PROVE  /\ Len(transcript["server"]) >= 6
                      /\ \A i \in 1 .. 6 : transcript["client"][i] = transcript["server"][i]
                      /\ Secret("client") = Secret("server")
                      /\ mutual["client"] = mutual["server"]
    BY Zenon DEF ClientDoneMeansAgreement
  <2>1. Len(transcript["client"]) >= 6
    BY Zenon DEF IInv, ClientCount
  <2>2. /\ Len(transcript["server"]) >= 6
        /\ \A i \in 1 .. 6 : transcript["client"][i] = transcript["server"][i]
        /\ Secret("client") = Secret("server")
    BY <2>1, Zenon DEF IInv, ClientAgreed
  <2>3. /\ Len(transcript["client"]) >= 3 /\ Len(transcript["server"]) >= 3
        /\ transcript["client"][3] = transcript["server"][3]
    <3>1. Len(transcript["client"]) \in Nat /\ Len(transcript["server"]) \in Nat
      BY Zenon DEF IInv, Logs, IsLog, End
    <3> QED
      BY <2>1, <2>2, <3>1
  <2>4. mutual["client"] = mutual["server"]
    BY <2>3, Zenon DEF IInv, ClientChecked, ServerAnnounced
  <2> QED
    BY <2>2, <2>4, Zenon
<1> QED
  BY <1>1, InvariantHolds, PTL

\* Mutual attestation asked for by either configuration is neither lost nor skipped:
\* the peer's evidence was accepted by every end that completes.
THEOREM MutualAttestation == Spec => []MutualHonoured
<1>1. IInv /\ ClientDoneMeansAgreement => MutualHonoured
  <2> SUFFICES ASSUME IInv, ClientDoneMeansAgreement PROVE MutualHonoured
    BY Zenon
  <2>1. pc["client"] = "done" =>
          Len(transcript["client"]) >= 3 /\ Len(transcript["client"]) >= 4
    <3>1. Len(transcript["client"]) \in Nat
      BY Zenon DEF IInv, Logs, IsLog, End
    <3> QED
      BY <3>1 DEF IInv, ClientCount
  <2>2. pc["client"] = "done" /\ cfg["client"].mutual => mutual["server"]
    BY <2>1, Zenon DEF IInv, ClientChecked, ClientDoneMeansAgreement
  <2>3. pc["client"] = "done" => cfg["client"].accepts
    BY <2>1, Zenon DEF IInv, ClientChecked
  <2>4. pc["server"] = "done" => pc["client"] = "done" /\ Len(transcript["server"]) >= 1
    <3>1. Len(transcript["server"]) \in Nat
      BY Zenon DEF IInv, Logs, IsLog, End
    <3> QED
      BY <3>1 DEF IInv, ServerCount, ServerDoneMeansAgreement
  <2>5. pc["server"] = "done" /\ (cfg["client"].mutual \/ cfg["server"].mutual)
          => mutual["server"]
    BY <2>2, <2>4, Zenon DEF IInv, ServerMutual
  <2>6. pc["server"] = "done" => pc["server"] \in {"CertificateVerify", "Finished", "done"}
    BY Zenon
  <2>7. pc["server"] = "done" /\ (cfg["client"].mutual \/ cfg["server"].mutual)
          => cfg["server"].accepts /\ cfg["client"].prepares
    BY <2>5, <2>6, Zenon DEF IInv, ServerMutual
  <2> QED
    BY <2>2, <2>3, <2>7, Zenon DEF MutualHonoured
<1> QED
  BY <1>1, InvariantHolds, ClientAgreement, PTL
=============================================================================
