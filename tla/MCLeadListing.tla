---------------------------- MODULE MCLeadListing ----------------------------
EXTENDS LeadListing

=============================================================================
