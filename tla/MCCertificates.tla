---------------------------- MODULE MCCertificates ----------------------------
EXTENDS Certificates

\* An address whose text is the beginning of another's.
ShortInLong == {<<"10.0.0.1", "10.0.0.15">>}

\* Both files that a start reads may fail to be written, or one of them and one
\* that it only writes.
RootOrOthers == {{"ca.pfx", "pfx"}, {"ca.cer", "pfx"}}
=============================================================================
