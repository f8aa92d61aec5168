----------------------------- MODULE MCVerifier -----------------------------
(***************************************************************************)
(* Verifier with two roots, fields of two one-bit words, and measurements  *)
(* that masking turns into one another: the ways the local sources and the *)
(* policy can be configured, against the ways a peer's evidence can be.    *)
(***************************************************************************)
EXTENDS Verifier

MCRoot == {"r1", "r2"}
MCXor(a, b) == (a + b) % 2
MCMeasurement == {<<0, 1>>, <<1, 0>>}
MCKeyDigest == {<<0, 0>>, <<0, 1>>}

\* A bundle of each root, one of both, and one with every certificate a place too low.
MCBundle == {"b1", "b2", "mixed", "shifted"}
MCHSKOf == [b \in MCBundle |->
  IF b = "shifted" THEN Certificates("r1")["HRK"]
  ELSE Certificates(IF b = "b2" THEN "r2" ELSE "r1")["HSK"]]
MCCEKOf == [b \in MCBundle |->
  IF b = "shifted" THEN Certificates("r1")["HSK"]
  ELSE Certificates(IF b = "b1" THEN "r1" ELSE "r2")["CEK"]]

Plain == [mode |-> "", skip |-> FALSE, mutual |-> FALSE, measurements |-> {<<0, 1>>},
          malformed |-> FALSE, pem |-> "pair", hrkPath |-> None, hskCekPath |-> None,
          dir |-> FALSE, dirHRK |-> "r1", dirHSKCek |-> "b1", trusted |-> "r1",
          hasProvider |-> FALSE, provider |-> None]

\* The interplay of sources ...
Sources ==
  {[Plain EXCEPT !.hrkPath = hp, !.hskCekPath = bp, !.dir = d[1], !.dirHRK = d[2],
                 !.dirHSKCek = d[3], !.trusted = t, !.hasProvider = TRUE, !.provider = p] :
     hp \in {None, "r1", "unreadable"}, bp \in {None, "b1"},
     d \in {<<FALSE, "r1", "b1">>}
            \cup ({TRUE} \X {"r1", "r2", "unreadable"} \X {"b1", "mixed", "unreadable"}),
     t \in {None, "r1", Short}, p \in {None, "r2"}}

\* ... and the policies, with one anchor.
Policies ==
  {[Plain EXCEPT !.mode = m, !.skip = s, !.mutual = u, !.measurements = w,
                 !.malformed = f, !.pem = k, !.hasProvider = h] :
     m \in {"", "strict", "permissive", "other"}, s, u \in BOOLEAN,
     w \in {{}, {<<0, 1>>}}, f, h \in BOOLEAN, k \in {"none", "half", "pair"}}

MCConfig == Sources \cup Policies

Peer(v, e, h, b, rep) ==
  [validity |-> v, evidence |-> e, hrk |-> h, hskCek |-> b, report |-> rep, key |-> <<0, 0>>]

\* What a peer may send along with genuine reports ...
Genuine ==
  {Peer("now", "present", h, b, Generate(r, <<0, 0>>, <<0, 1>>, 1)) :
     h \in {None, "r1", "r2"}, b \in MCBundle \cup {None}, r \in MCRoot}
\* ... reports for other keys or for other user data, with other measurements, or
\* changed where their signature does not show it ...
Altered ==
  {Peer("now", "present", None, "b1",
        [Generate("r1", u, m, 0) EXCEPT !.anonce = a, !.pekMask = n, !.pek = c, !.chipID = i]) :
     u \in MCKeyDigest \cup {<<1, 1>>}, m \in MCMeasurement, a, n \in {0, 1},
     c \in {Certificates("r1")["PEK"], Certificates("r2")["PEK"], Certificates("r1")["CEK"]},
     i \in {"printable", "empty"}}
\* ... or where it does, and certificates that are refused before the report is read.
Broken ==
  {Peer("now", "present", None, "b1",
        [Generate("r1", <<0, 1>>, <<1, 0>>, 0) EXCEPT !.userData = <<0, 0>>,
                                                      !.measure = <<0, 1>>])}
  \cup {Peer(v, e, None, "b1", Generate("r1", <<0, 0>>, <<0, 1>>, 0)) :
          v \in {"early", "now", "expired"}, e \in {"missing", "undecodable", "present"}}

MCCertificate == Genuine \cup Altered \cup Broken
=============================================================================
