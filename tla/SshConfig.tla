----------------------------- MODULE SshConfig -----------------------------
(***************************************************************************)
(* ssh/config_parser.py: how ~/.ssh/config is read for one host, and what  *)
(* OpenSSH reads there.                                                    *)
(*                                                                         *)
(* A text is a sequence of lines, comments and blank ones left out.  A     *)
(* line is a Host line with its patterns, a Match line with the hosts its  *)
(* criteria hold for, or a keyword with its value.  A pattern is a name, a *)
(* name that is negated with "!", or one with a wildcard, given by the     *)
(* names it matches.                                                       *)
(***************************************************************************)
EXTENDS Integers, Sequences

CONSTANTS
    Empty,        \* a keyword without a value
    DefaultPort   \* 22

Keywords == {"hostname", "user", "port", "proxyjump", "identityfile"}

HostLine(patterns) == [key |-> "host", patterns |-> patterns]
MatchLine(names)   == [key |-> "match", value |-> names]
Line(key, value)   == [key |-> key, value |-> value]

Name(host)      == [sort |-> "name", names |-> {host}]
Negated(host)   == [sort |-> "negated", names |-> {host}]
Wildcard(hosts) == [sort |-> "wildcard", names |-> hosts]

Default(key, host) == CASE key = "hostname" -> host
                        [] key = "port" -> DefaultPort
                        [] OTHER -> Empty

Defaults(host) == [k \in Keywords |-> Default(k, host)]

-----------------------------------------------------------------------------
(* get_host_config *)

\* A block ends at the next Host line.  Without one before it, it is lost.
Close(reading) ==
    IF reading.patterns = {} THEN reading.blocks
    ELSE Append(reading.blocks, [patterns |-> reading.patterns, block |-> reading.block])

\* Any other line than Host, Match too, is an entry of the block.
Read(reading, l) ==
    IF l.key = "host"
      THEN [blocks |-> Close(reading), patterns |-> l.patterns, block |-> <<>>]
      ELSE [reading EXCEPT !.block =
              [k \in DOMAIN @ \cup {l.key} |-> IF k = l.key THEN l.value ELSE @[k]]]

\* What has been read after each number of lines.
Readings(text) ==
    LET reading[i \in 0..Len(text)] ==
          IF i = 0 THEN [blocks |-> <<>>, patterns |-> {}, block |-> <<>>]
          ELSE Read(reading[i - 1], text[i])
    IN  reading

Blocks(text) == Close(Readings(text)[Len(text)])

\* "!" has no meaning in _host_matches: the pattern is a name nobody has.
HostMatches(host, pattern) == pattern.sort # "negated" /\ host \in pattern.names

\* A keyword counts as set when it has another value than its default.
Obtain(config, b, host) ==
    [k \in Keywords |->
        IF k \in DOMAIN b.block /\ config[k] = Default(k, host) THEN b.block[k] ELSE config[k]]

Apply(config, b, host) ==
    IF \E p \in b.patterns : HostMatches(host, p) THEN Obtain(config, b, host) ELSE config

\* The result after each number of blocks.
Resolved(blocks, host) ==
    LET config[i \in 0..Len(blocks)] ==
          IF i = 0 THEN Defaults(host)
          ELSE Apply(config[i - 1], blocks[i], host)
    IN  config

GetHostConfig(text, host) ==
    LET blocks == Blocks(text) IN Resolved(blocks, host)[Len(blocks)]

-----------------------------------------------------------------------------
(* OpenSSH, see ssh_config(5) *)

Headers(text, i) == {j \in 1..i : text[j].key \in {"host", "match"}}

\* The line is before every header, or the last one before it selects the host.
Applies(text, i, host) ==
    \/ Headers(text, i) = {}
    \/ \E j \in Headers(text, i) :
         /\ \A k \in Headers(text, i) : k <= j
         /\ \/ text[j].key = "match" /\ host \in text[j].value
            \/ /\ text[j].key = "host"
               /\ \E p \in text[j].patterns : p.sort # "negated" /\ host \in p.names
               /\ \A p \in text[j].patterns : p.sort = "negated" => host \notin p.names

FirstObtained(text, key, host) ==
    LET found == {i \in DOMAIN text : text[i].key = key /\ Applies(text, i, host)}
    IN  IF found = {} THEN Default(key, host)
        ELSE text[CHOOSE i \in found : \A j \in found : i <= j].value

\* The texts that both read alike: no directive before the first Host, no Match, no
\* negated pattern, no keyword twice in a block and none that is given its default.
Plain(text, host) ==
    /\ text # <<>> => text[1].key = "host"
    /\ \A i \in DOMAIN text :
         /\ text[i].key # "match"
         /\ text[i].key = "host" => \A p \in text[i].patterns : p.sort # "negated"
         /\ text[i].key \in Keywords =>
              /\ text[i].value # Default(text[i].key, host)
              /\ \A j \in DOMAIN text : i < j /\ text[i].key = text[j].key
                    => Headers(text, i) # Headers(text, j)
=============================================================================
