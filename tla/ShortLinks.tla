------------------------------- MODULE ShortLinks -------------------------------
(***************************************************************************)
(* baseapp_url_shortening: a link is saved twice, first to learn its key and   *)
(* then with the short code made of the key, which is unique.  Workers that    *)
(* shorten links outside a transaction may stop in between.                    *)
(***************************************************************************)
EXTENDS Integers, FiniteSets

CONSTANTS
  FullUrl, Http, \* Http: those with scheme http or https
  Worker, None, MaxLinks

VARIABLES
  links,  \* ShortUrl rows by key: the full URL and the short code, 0 while it is empty
  keys,   \* keys taken from the sequence, for good
  saving, \* saving[w]: the link that worker w saves for the second time, or None
  given   \* history: what shorten_url returned: the URL it was asked for, and the short code or None

vars == <<links, keys, saving, given>>

TypeOK ==
  /\ keys \in 0..MaxLinks
  /\ \A k \in DOMAIN links : k \in 1..keys /\ links[k].url \in FullUrl /\ links[k].code \in 0..keys
  /\ \A w \in Worker : saving[w] = None \/ saving[w].key \in 1..keys
  /\ \A g \in given : g.url \in FullUrl

Coded(c) == {k \in DOMAIN links : links[k].code = c}
Unfinished == {saving[w].key : w \in {x \in Worker : saving[x] # None}}

\* short_url.encode_url gives every key a code of its own.
encode_url(k) == k

\* shorten_url: with another link still without a code the first save fails, and the full
\* URL is returned.
Return(url, code) == given' = given \cup {[url |-> url, code |-> code]}

shorten_url(w, url) ==
  LET k == keys + 1
  IN  /\ saving[w] = None /\ keys < MaxLinks /\ keys' = k
      /\ IF Coded(0) = {}
         THEN /\ links' = [l \in DOMAIN links \cup {k} |->
                             IF l = k THEN [url |-> url, code |-> 0] ELSE links[l]]
              /\ saving' = [saving EXCEPT ![w] = [key |-> k, url |-> url]]
              /\ UNCHANGED given
         ELSE Return(url, None) /\ UNCHANGED <<links, saving>>

\* The second save; it fails if the link was deleted meanwhile, or the code is taken.
save(w) ==
  /\ saving[w] # None
  /\ LET k == saving[w].key
     IN  IF k \in DOMAIN links /\ Coded(encode_url(k)) = {}
         THEN /\ links' = [links EXCEPT ![k].code = encode_url(k)]
              /\ Return(saving[w].url, encode_url(k))
         ELSE Return(saving[w].url, None) /\ UNCHANGED links
  /\ saving' = [saving EXCEPT ![w] = None]
  /\ UNCHANGED keys

\* The worker stops, and the link keeps its empty code.
Stop(w) ==
  /\ saving[w] # None /\ saving' = [saving EXCEPT ![w] = None]
  /\ UNCHANGED <<links, keys, given>>

\* An operator deletes a link.
Delete(k) ==
  /\ k \in DOMAIN links /\ links' = [l \in DOMAIN links \ {k} |-> links[l]]
  /\ UNCHANGED <<keys, saving, given>>

\* redirect_full_url: where a code leads, None for an error.
redirect_full_url(c) ==
  IF Coded(c) = {} THEN None
  ELSE LET url == links[CHOOSE k \in Coded(c) : TRUE].url IN IF url \in Http THEN url ELSE None

Init == links = [k \in {} |-> None] /\ keys = 0 /\ saving = [w \in Worker |-> None] /\ given = {}

Next ==
  \/ \E w \in Worker, url \in FullUrl : shorten_url(w, url)
  \/ \E w \in Worker : save(w) \/ Stop(w)
  \/ \E k \in DOMAIN links : Delete(k)

Spec == Init /\ [][Next]_vars

-----------------------------------------------------------------------------
\* A short link never leads elsewhere than to the URL it was made for, and while nobody deletes
\* it it leads there; no two links share a code, whoever stops or deletes what in between.
LinksLead ==
  /\ \A g \in given : g.code # None => redirect_full_url(g.code) \in {g.url, None}
  /\ \A g \in given : g.code # None /\ g.url \in Http /\ g.code \in DOMAIN links =>
       redirect_full_url(g.code) = g.url
  /\ \A k, l \in DOMAIN links : links[k].code = links[l].code => k = l

\* At any time at most one link is unfinished; it is its worker's, or was left by one that
\* stopped, and only then does everybody get full URLs until an operator deletes it.
OneUnfinished == Cardinality(Coded(0)) <= 1 /\ Unfinished \cap DOMAIN links \subseteq Coded(0)

LinksConsistent == LinksLead /\ OneUnfinished
=============================================================================
