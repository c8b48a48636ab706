----------------------------- MODULE MCLifeline -----------------------------
(* Values of the constants of Lifeline for TLC. *)
EXTENDS Lifeline

\* config.h
LIFELINE_SERVERS == <<"lifeline.hy5.berlin", "lifeline.captif.io",
                      "lifeline.exys.org", "lifeline.superscale.io">>
DNS_RESOLVERS == <<"8.8.8.8", "8.8.4.4", "208.67.222.222", "208.67.220.220",
                   "/etc/resolv.conf">>

\* The instance: one address and the file, one server name, so that TLC gets
\* through every failure of up to four attempts in one process.
OneServer == SubSeq(LIFELINE_SERVERS, 1, 1)
TwoResolvers == SubSeq(DNS_RESOLVERS, 4, 5)

NoneOrOne == {<<>>, <<"192.168.1.1">>}

StatusLine == <<"e1", "e2">>

\* Two addresses with a record of another type between them; and two of which
\* the second has no time to live.
SomeAnswers == {<<[isA |-> TRUE, ttl |-> 60], [isA |-> FALSE, ttl |-> 60],
                  [isA |-> TRUE, ttl |-> 60]>>,
                <<[isA |-> TRUE, ttl |-> 60], [isA |-> TRUE, ttl |-> 0]>>}

\* A header line; line ends within what is meant for ssh; a refusal; nothing.
SomeStreams == {StatusLine \o <<"cr", "lf", "h", "cr", "lf", "cr", "lf", "s", "cr", "t">>,
                StatusLine \o <<"cr", "lf", "cr", "lf", "cr", "lf", "s">>,
                <<"e1", "h", "cr", "lf">>,
                <<>>}

Prompt == <<"p", "q">>

=============================================================================
