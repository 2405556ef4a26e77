---- MODULE MCCertCache ----
EXTENDS CertCache
====
